---- MODULE Spec2Model ----
(***************************************************************************)
(* State-machine model of the LLrdc server (cmd/server): the encoder       *)
(* supervisor loop of startStreaming, the config setters, the WebSocket    *)
(* message handlers, the IVF de-muxer, the frame fan-out and the WebRTC    *)
(* pacing writer.                                                          *)
(***************************************************************************)
EXTENDS Integers, Sequences, FiniteSets, TLC

\* ------------------------------------------------------------------ bounds
MaxMsgs == 2         \* config / resize messages received over a run
MaxCrash == 1        \* spontaneous encoder exits over a run
MaxFpsMsgs == 1      \* framerate messages over a run of the frame pipeline
MaxFrames == 3       \* frames the encoder children produce over a run
MaxQueue == 2        \* capacity of the frame channels in the model (300 in the code)
TickNs == 1000000    \* time between two captures that are not simultaneous, in ns
MaxSessFrames == 1   \* frames produced over a run of the sessions' lives
MaxTasks == 3        \* inject* calls over a run
MaxInQueue == 2      \* capacity of inputChan in the model (2000 in the code)
TickMs == 4          \* granularity of the clock of the input worker, in ms
MaxNowMs == 9        \* the clock of the input worker stops here
MaxIvfFrames == 2    \* complete frames in an encoder byte stream
MaxPayload == 2      \* bytes in the payload of a frame
MaxCtl == 2          \* spawn and ping messages over a run
MaxLeak == 1         \* peer connections a session loses track of over a run

\* Two WebSocket sessions.
Clients == {1, 2}

\* --------------------------------------------------------- program constants
minScreenWidth == 320
minScreenHeight == 240
InitMaxWidth == 3840
InitMaxHeight == 2160
MouseGapMs == 8            \* 8*time.Millisecond
ZeroTimeMs == -1000000     \* the zero time.Time: long before the process started

VARIABLES
  \* EncoderConfig (ffmpeg.go:14-21, config.go:10)
  targetMode, targetBandwidthMbps, targetQuality, targetVBR,
  targetCpuEffort, targetCpuThreads, targetDrawMouse, FPS,
  \* ScreenState
  screenWidth, screenHeight,
  \* supervisor
  ffmpegCmd,        \* 0 = nil, else the index in proc of the exec.Cmd
  ffmpegShouldRun,
  ffmpegStreamID,
  proc,             \* every exec.Cmd created so far: its process state
  supPc,            \* position of the supervisor goroutine in its loop
  snap,             \* the loop's local parameter snapshot
  loopStreamID,     \* the loop's local currentStreamID
  demuxPc,          \* position of the splitIVF goroutine
  \* shutdown()
  shut,
  \* WebSocket read loops
  todo,             \* per client: setter calls of the message being handled
  applied,          \* per client: setter calls of that message already made
  \* history
  nMsgs, allNoop, onlyQuality, crashes, snapPartial,
  \* frame pipeline
  clock,            \* time.Now() at the last capture, in nanoseconds
  nFrames,          \* frames produced so far
  pending,          \* the frame broadcastIVFFrame is fanning out
  webrtcFrameChan,
  bufferedFrame,    \* the pacing writer's held frame
  currentStreamID,  \* webrtc.go's package variable
  lastSample,       \* the last videoTrack.WriteSample
  clients,          \* registry: the connected sessions
  webrtcReady,
  sendChan,
  \* sessions (wsHandler)
  sess,             \* per client: position of wsHandler (read loop, deferred calls)
  pc,               \* per client: the handler's peer connection
  sendClosed,       \* per client: whether client.sendChan has been closed
  \* ScreenState handlers
  rsPc,             \* per client: position inside case "resize" / SetScreenSize
  rsReq,            \* per client: width and height of the resize message
  rsW, rsH,         \* per client: SetScreenSize's clamped width and height
  rsPrevW,          \* per client: SetScreenSize's prevWidth
  nDisplayResize,   \* resizeDisplay calls so far
  \* input coalescer (config.go)
  inputChan,
  inPc,             \* position of the input worker
  pendingMove,
  nextTask,
  lastMouseTime,
  nowMs,            \* time.Now(), in milliseconds
  dispatched,       \* every xdotool dispatch so far: task and time
  nSubmitted,       \* inject* calls so far
  accepted,         \* the tasks that entered inputChan
  superseded,       \* ids of moves that had a move right behind them in the queue
  moveSubAt,        \* time of every injectMouseMove call
  stalled,          \* the worker was held up for a tick outside a wait or an xdotool start
  \* splitIVF on a byte stream
  reader,           \* the bytes the encoder child writes to its stdout
  ivfIn,            \* how reader was built: magic, header length, payloads, tail
  ivfPos,           \* bytes of reader consumed so far
  ivfPc,            \* position of splitIVF
  frameSize,        \* splitIVF's frameSize
  ivfOut,           \* the frames handed to onFrame, in order
  \* history of the WebRTC sink
  wrote,            \* Data of every videoTrack.WriteSample so far, in order
  rtcDropped,       \* Data of the frames WriteWebRTCFrame dropped
  \* spawn and ping
  spawned,          \* the commands spawnApp started, in order
  pongs,            \* per client: the timestamps of the pong messages written
  msgLog,           \* the spawn and ping messages read so far
  \* key tasks
  taskKey,          \* per task id: inputTask.Key
  xdo,              \* every xdotool command started so far
  \* history of splitIVF
  badHeader,        \* epoch of the last child whose header splitIVF rejected
  \* WebSocket writes and signaling (wsHandler)
  mu,               \* per client: the holder of client.mu
  wr,               \* per client: the goroutines inside a write call on conn
  rdPc,             \* per client: position of the read loop around writeJSON
  leaked,           \* per client: un-closed peer connections no variable refers to
  lastMsg           \* the message a read loop handled last, and its sender

cfgVars == <<targetMode, targetBandwidthMbps, targetQuality, targetVBR,
             targetCpuEffort, targetCpuThreads, targetDrawMouse, FPS>>
screenVars == <<screenWidth, screenHeight>>
supVars == <<ffmpegCmd, ffmpegStreamID, proc, supPc, snap, loopStreamID, demuxPc>>
histVars == <<nMsgs, allNoop, onlyQuality, crashes>>
pipeVars == <<clock, nFrames, pending, webrtcFrameChan, bufferedFrame,
              currentStreamID, lastSample, clients, webrtcReady, sendChan>>
sessVars == <<sess, pc, sendClosed>>
rsVars == <<rsPc, rsReq, rsW, rsH, rsPrevW, nDisplayResize>>
inVars == <<inputChan, inPc, pendingMove, nextTask, lastMouseTime, nowMs,
            dispatched, nSubmitted, accepted, superseded, moveSubAt, stalled>>
ivfVars == <<reader, ivfIn, ivfPos, ivfPc, frameSize, ivfOut>>
obsVars == <<wrote, rtcDropped>>
msgVars == <<spawned, pongs, msgLog>>
keyVars == <<taskKey, xdo>>
sigVars == <<mu, wr, rdPc, leaked, lastMsg>>
extVars == <<sessVars, rsVars, inVars, ivfVars, msgVars, sigVars, keyVars, badHeader, obsVars>>
vars == <<cfgVars, screenVars, supVars, ffmpegShouldRun, shut, todo, applied,
          histVars, snapPartial, pipeVars, extVars>>

\* ------------------------------------------------------------ config registry
CurrentConfig ==
  [mode |-> targetMode, bw |-> targetBandwidthMbps, quality |-> targetQuality,
   fps |-> FPS, vbr |-> targetVBR, cpuEffort |-> targetCpuEffort,
   cpuThreads |-> targetCpuThreads, drawMouse |-> targetDrawMouse]

NoSnap == [mode |-> "none", bw |-> 0, quality |-> 0, fps |-> 0, vbr |-> FALSE,
           cpuEffort |-> 0, cpuThreads |-> 0, drawMouse |-> FALSE,
           width |-> 0, height |-> 0]

\* One setter call of the config handler: field, boolean value, integer value.
Op(f, b, n) == [f |-> f, b |-> b, n |-> n]

Has(m, k) == k \in DOMAIN m

\* The setter calls the "config" case makes for message m, in the code's order.
FramerateFirst(m) ==
  IF Has(m, "framerate") THEN << Op("fps_raw", FALSE, m["framerate"]) >> ELSE << >>

ConfigOps(m) ==
  (IF Has(m, "vbr") THEN << Op("vbr", m["vbr"], 0) >> ELSE << >>)
  \o (IF Has(m, "cpu_effort") THEN << Op("cpu_effort", FALSE, m["cpu_effort"]) >> ELSE << >>)
  \o (IF Has(m, "cpu_threads") THEN << Op("cpu_threads", FALSE, m["cpu_threads"]) >> ELSE << >>)
  \o (IF Has(m, "enable_desktop_mouse")
        THEN << Op("enable_desktop_mouse", m["enable_desktop_mouse"], 0) >> ELSE << >>)
  \o (IF Has(m, "bandwidth")
        THEN FramerateFirst(m) \o << Op("bandwidth", FALSE, m["bandwidth"]) >>
        ELSE IF Has(m, "quality")
          THEN FramerateFirst(m) \o << Op("quality", FALSE, m["quality"]) >>
          ELSE IF Has(m, "framerate")
            THEN << Op("framerate", FALSE, m["framerate"]) >>
            ELSE << >>)

\* The EncoderConfig after one setter call on configuration c.
WriteField(c, op) ==
  CASE op.f = "vbr" -> [c EXCEPT !.vbr = op.b]
    [] op.f = "cpu_effort" -> [c EXCEPT !.cpuEffort = op.n]
    [] op.f = "cpu_threads" -> [c EXCEPT !.cpuThreads = op.n]
    [] op.f = "enable_desktop_mouse" -> [c EXCEPT !.drawMouse = op.b]
    [] op.f = "bandwidth" -> [c EXCEPT !.mode = "bandwidth", !.bw = op.n]
    [] op.f = "quality" -> [c EXCEPT !.mode = "quality", !.quality = op.n]
    [] op.f \in {"framerate", "fps_raw"} -> [c EXCEPT !.fps = op.n]
    [] OTHER -> c

RECURSIVE WriteAll(_, _)
WriteAll(c, ops) ==
  IF ops = << >> THEN c ELSE WriteAll(WriteField(c, Head(ops)), Tail(ops))

\* Every setter but the handler's bare FPS write ends with the kill.
Kills(op) == op.f # "fps_raw"

\* ffmpegCmd.Process.Kill() behind "ffmpegCmd != nil && ffmpegCmd.Process != nil":
\* only a running process is affected by the signal.
KillProc(p, cmd) ==
  IF cmd # 0 /\ p[cmd] = "running" THEN [p EXCEPT ![cmd] = "killed"] ELSE p

\* Mutant: no upper bound on the width.
ClampWNoMax(w) == IF w < minScreenWidth THEN minScreenWidth ELSE w

ClampW(w) ==
  LET a == IF w < minScreenWidth THEN minScreenWidth ELSE w
  IN IF InitMaxWidth > 0 /\ a > InitMaxWidth THEN InitMaxWidth ELSE a

ClampH(h) ==
  LET a == IF h < minScreenHeight THEN minScreenHeight ELSE h
  IN IF InitMaxHeight > 0 /\ a > InitMaxHeight THEN InitMaxHeight ELSE a

\* ------------------------------------------------------------ frame pipeline
Second == 1000000000
Microsecond == 1000

\* Go's integer division truncates toward zero.
GoDiv(a, b) ==
  IF (a >= 0) = (b > 0)
    THEN (IF a >= 0 THEN a ELSE -a) \div (IF b > 0 THEN b ELSE -b)
    ELSE -((IF a >= 0 THEN a ELSE -a) \div (IF b > 0 THEN b ELSE -b))

\* inputTask{}
NoTask == [Type |-> "", id |-> 0]

NoFrame == [Data |-> 0, StreamID |-> 0, CaptureTime |-> 0, src |-> 0]

NoSample == [Data |-> 0, StreamID |-> 0, src |-> 0, Duration |-> Second, path |-> "none",
             epochNow |-> 0]

\* Mutant: the new element goes to the front of the channel.
TrySendFront(ch, x) == IF Len(ch) < MaxQueue THEN <<x>> \o ch ELSE ch

\* Mutant: a full channel gives up its oldest element.
TrySendDropOldest(ch, x) ==
  IF Len(ch) < MaxQueue THEN Append(ch, x) ELSE Append(Tail(ch), x)

\* A non-blocking channel send: select { case ch <- x: default: }
TrySend(ch, x) == IF Len(ch) < MaxQueue THEN Append(ch, x) ELSE ch

\* ------------------------------------------------------------------ inputs
ConfigMsgs ==
  { [bandwidth |-> 5],
    [vbr |-> FALSE, cpu_effort |-> 4],
    [quality |-> 71, framerate |-> 15] }

\* Framerate values a client can send.
FramerateMsgs == { [framerate |-> 0], [framerate |-> 2000000] }

\* A burst of messages that change only quality.
QualityMsgs == { [quality |-> 71], [quality |-> 72] }

ResizeMsgs == { <<0, 0>>, <<10, 10>> }

\* Rejected, below the minimum, above the maximum.
ScreenMsgs == { <<0, 0>>, <<10, 10>>, <<5000, 5000>> }

\* No message has been handled yet.
NoMsg == [client |-> 0, valid |-> FALSE, m |-> [bytes |-> <<"", "">>], step |-> ""]

\* -------------------------------------------------------------------- Init
InitServer ==
  /\ targetMode = "bandwidth"
  /\ targetBandwidthMbps = 5
  /\ targetQuality = 70
  /\ targetVBR = TRUE
  /\ targetCpuEffort = 6
  /\ targetCpuThreads = 4
  /\ targetDrawMouse = TRUE
  /\ FPS = 30
  /\ screenWidth = ClampW(InitMaxWidth)
  /\ screenHeight = ClampH(InitMaxHeight)
  /\ ffmpegCmd = 0
  /\ ffmpegShouldRun = TRUE
  /\ ffmpegStreamID = 0
  /\ proc = << >>
  /\ supPc = "check"
  /\ snap = NoSnap
  /\ loopStreamID = 0
  /\ demuxPc = "idle"
  /\ shut = "no"
  /\ todo = [c \in Clients |-> << >>]
  /\ applied = [c \in Clients |-> << >>]
  /\ nMsgs = 0
  /\ allNoop = TRUE
  /\ onlyQuality = TRUE
  /\ crashes = 0
  /\ snapPartial = FALSE
  /\ clock = 0
  /\ nFrames = 0
  /\ pending = NoFrame
  /\ webrtcFrameChan = << >>
  /\ bufferedFrame = NoFrame
  /\ currentStreamID = 0
  /\ lastSample = NoSample
  /\ clients = Clients
  /\ webrtcReady = [c \in Clients |-> FALSE]
  /\ sendChan = [c \in Clients |-> << >>]
  /\ sess = [c \in Clients |-> "open"]
  /\ pc = [c \in Clients |-> "none"]
  /\ sendClosed = [c \in Clients |-> FALSE]
  /\ rsPc = [c \in Clients |-> "idle"]
  /\ rsReq = [c \in Clients |-> [w |-> 0, h |-> 0, n |-> 0]]
  /\ rsW = [c \in Clients |-> 0]
  /\ rsH = [c \in Clients |-> 0]
  /\ rsPrevW = [c \in Clients |-> 0]
  /\ nDisplayResize = 0
  /\ inputChan = << >>
  /\ inPc = "recv"
  /\ pendingMove = NoTask
  /\ nextTask = NoTask
  /\ lastMouseTime = ZeroTimeMs
  /\ nowMs = 0
  /\ dispatched = << >>
  /\ nSubmitted = 0
  /\ accepted = {}
  /\ superseded = {}
  /\ moveSubAt = << >>
  /\ stalled = FALSE

\* No byte stream under test: splitIVF is modelled by DemuxHeader .. DemuxEOF.
NoIvfIn == [magic |-> << >>, hdrLen |-> 0, payloads |-> << >>, tail |-> << >>]

Init ==
  /\ InitServer
  /\ reader = << >>
  /\ ivfIn = NoIvfIn
  /\ ivfPos = 0
  /\ ivfPc = "off"
  /\ frameSize = 0
  /\ ivfOut = << >>
  /\ wrote = << >>
  /\ rtcDropped = {}
  /\ spawned = << >>
  /\ pongs = [c \in Clients |-> << >>]
  /\ msgLog = << >>
  /\ taskKey = [i \in 1..MaxTasks |-> << >>]
  /\ xdo = << >>
  /\ badHeader = 0
  /\ mu = [c \in Clients |-> "free"]
  /\ wr = [c \in Clients |-> {}]
  /\ rdPc = [c \in Clients |-> "read"]
  /\ leaked = [c \in Clients |-> 0]
  /\ lastMsg = NoMsg

\* The server process runs: no os.Exit, no panic.
Up == shut \notin {"exited", "panic"}

\* ------------------------------------------------------- WebSocket handlers
\* case "config": the message is decoded and its setter calls are lined up.
RecvConfig(c, m) ==
  /\ Up
  /\ sess[c] = "open"
  /\ todo[c] = << >>
  /\ rsPc[c] = "idle"
  /\ nMsgs < MaxMsgs
  /\ todo' = [todo EXCEPT ![c] = ConfigOps(m)]
  /\ applied' = [applied EXCEPT ![c] = << >>]
  /\ nMsgs' = nMsgs + 1
  /\ allNoop' = (allNoop /\ WriteAll(CurrentConfig, ConfigOps(m)) = CurrentConfig)
  /\ onlyQuality' = (onlyQuality /\ DOMAIN m = {"quality"})
  /\ UNCHANGED <<cfgVars, screenVars, supVars, ffmpegShouldRun, shut, crashes, snapPartial, pipeVars>>
  /\ UNCHANGED extVars

\* One setter (SetVBR .. SetFramerate, RestartForResize) or the handler's bare
\* FPS write, each one ffmpegMutex section.
ApplyOp(c) ==
  /\ Up
  /\ todo[c] # << >>
  /\ LET op == Head(todo[c])
         nc == WriteField(CurrentConfig, op)
     IN /\ targetMode' = nc.mode
        /\ targetBandwidthMbps' = nc.bw
        /\ targetQuality' = nc.quality
        /\ FPS' = nc.fps
        /\ targetVBR' = nc.vbr
        /\ targetCpuEffort' = nc.cpuEffort
        /\ targetCpuThreads' = nc.cpuThreads
        /\ targetDrawMouse' = nc.drawMouse
        /\ proc' = IF Kills(op) THEN KillProc(proc, ffmpegCmd) ELSE proc
        /\ applied' = [applied EXCEPT ![c] =
                          IF Tail(todo[c]) = << >> THEN << >> ELSE Append(@, op)]
  /\ todo' = [todo EXCEPT ![c] = Tail(@)]
  /\ UNCHANGED <<screenVars, ffmpegCmd, ffmpegStreamID, supPc, snap, loopStreamID,
                 demuxPc, ffmpegShouldRun, shut, histVars, snapPartial, pipeVars>>
  /\ UNCHANGED extVars

\* case "resize": the message is decoded and SetScreenSize begins: a width or
\* height <= 0 makes it return false at once, otherwise both are clamped.
RecvResize(c, w, h) ==
  /\ Up
  /\ sess[c] = "open"
  /\ todo[c] = << >>
  /\ rsPc[c] = "idle"
  /\ nMsgs < MaxMsgs
  /\ nMsgs' = nMsgs + 1
  /\ applied' = [applied EXCEPT ![c] = << >>]
  /\ rsReq' = [rsReq EXCEPT ![c] = [w |-> w, h |-> h, n |-> nMsgs + 1]]
  /\ IF w <= 0 \/ h <= 0
       THEN UNCHANGED <<rsPc, rsW, rsH>>
       ELSE /\ rsW' = [rsW EXCEPT ![c] = ClampW(w)]
            /\ rsH' = [rsH EXCEPT ![c] = ClampH(h)]
            /\ rsPc' = [rsPc EXCEPT ![c] = "loadW"]
  /\ onlyQuality' = FALSE
  /\ UNCHANGED <<cfgVars, screenVars, supVars, ffmpegShouldRun, shut, todo, allNoop,
                 crashes, snapPartial, pipeVars, sessVars, rsPrevW, nDisplayResize, inVars,
                 ivfVars, msgVars, sigVars, keyVars, badHeader, obsVars>>

ResizeOther ==
  UNCHANGED <<cfgVars, supVars, ffmpegShouldRun, shut, applied, nMsgs, onlyQuality,
              crashes, snapPartial, pipeVars, sessVars, rsReq, inVars,
              ivfVars, msgVars, sigVars, keyVars, badHeader, obsVars>>

\* prevWidth := screenWidth.Load()
SetLoadW(c) ==
  /\ Up
  /\ rsPc[c] = "loadW"
  /\ rsPrevW' = [rsPrevW EXCEPT ![c] = screenWidth]
  /\ rsPc' = [rsPc EXCEPT ![c] = "loadH"]
  /\ UNCHANGED <<screenVars, todo, allNoop, rsW, rsH, nDisplayResize>>
  /\ ResizeOther

\* Mutant: SetScreenSize stores and returns true whatever the previous size is.
SetLoadHAlways(c) ==
  /\ Up
  /\ rsPc[c] = "loadH"
  /\ rsPc' = [rsPc EXCEPT ![c] = "storeW"]
  /\ UNCHANGED <<screenVars, todo, allNoop, rsW, rsH, rsPrevW, nDisplayResize>>
  /\ ResizeOther

\* prevHeight := screenHeight.Load(), and the comparison: an unchanged size
\* makes SetScreenSize return false.
SetLoadH(c) ==
  /\ Up
  /\ rsPc[c] = "loadH"
  /\ IF rsW[c] = rsPrevW[c] /\ rsH[c] = screenHeight
       THEN /\ rsPc' = [rsPc EXCEPT ![c] = "idle"]
            /\ rsW' = [rsW EXCEPT ![c] = 0]
            /\ rsH' = [rsH EXCEPT ![c] = 0]
            /\ rsPrevW' = [rsPrevW EXCEPT ![c] = 0]
       ELSE /\ rsPc' = [rsPc EXCEPT ![c] = "storeW"]
            /\ UNCHANGED <<rsW, rsH, rsPrevW>>
  /\ UNCHANGED <<screenVars, todo, allNoop, nDisplayResize>>
  /\ ResizeOther

\* screenWidth.Store(int64(width))
SetStoreW(c) ==
  /\ Up
  /\ rsPc[c] = "storeW"
  /\ screenWidth' = rsW[c]
  /\ rsPc' = [rsPc EXCEPT ![c] = "storeH"]
  /\ allNoop' = FALSE
  /\ UNCHANGED <<screenHeight, todo, rsW, rsH, rsPrevW, nDisplayResize>>
  /\ ResizeOther

\* screenHeight.Store(int64(height)); return true
SetStoreH(c) ==
  /\ Up
  /\ rsPc[c] = "storeH"
  /\ screenHeight' = rsH[c]
  /\ rsPc' = [rsPc EXCEPT ![c] = "display"]
  /\ UNCHANGED <<screenWidth, todo, allNoop, rsW, rsH, rsPrevW, nDisplayResize>>
  /\ ResizeOther

\* SetScreenSize returned true: resizeDisplay is called with the current size,
\* and RestartForResize comes next.
ResizeDisplay(c) ==
  /\ Up
  /\ rsPc[c] = "display"
  /\ nDisplayResize' = nDisplayResize + 1
  /\ todo' = [todo EXCEPT ![c] = << Op("resize_restart", FALSE, 0) >>]
  /\ rsPc' = [rsPc EXCEPT ![c] = "idle"]
  /\ rsW' = [rsW EXCEPT ![c] = 0]
  /\ rsH' = [rsH EXCEPT ![c] = 0]
  /\ rsPrevW' = [rsPrevW EXCEPT ![c] = 0]
  /\ UNCHANGED <<screenVars, allNoop>>
  /\ ResizeOther

\* The steps of SetScreenSize and of the handler after it.
ResizeStep(c) ==
  \/ SetLoadW(c) \/ SetLoadH(c) \/ SetStoreW(c) \/ SetStoreH(c) \/ ResizeDisplay(c)

\* -------------------------------------------------------- encoder supervisor
\* A message c has partly applied: the snapshot s holds a value one of its
\* setter calls wrote and lacks a value one of its pending calls will write.
Partial(c, s) ==
  /\ \E i \in 1 .. Len(applied[c]) :
       /\ applied[c][i].f # "resize_restart"
       /\ WriteField(s, applied[c][i]) = s
  /\ \E j \in 1 .. Len(todo[c]) :
       /\ todo[c][j].f # "resize_restart"
       /\ WriteField(s, todo[c][j]) # s

SupSnapshot ==
  /\ Up
  /\ supPc = "check"
  /\ IF ~ffmpegShouldRun
       THEN /\ supPc' = "stopped"
            /\ UNCHANGED <<snap, snapPartial, pipeVars>>
       ELSE /\ supPc' = "size"
            /\ snap' = [mode |-> targetMode, bw |-> targetBandwidthMbps,
                        quality |-> targetQuality, fps |-> FPS, vbr |-> targetVBR,
                        cpuEffort |-> targetCpuEffort, cpuThreads |-> targetCpuThreads,
                        drawMouse |-> targetDrawMouse,
                        width |-> snap.width, height |-> snap.height]
            /\ snapPartial' = (snapPartial \/ \E c \in Clients : Partial(c, CurrentConfig))
  /\ UNCHANGED <<cfgVars, screenVars, ffmpegCmd, ffmpegStreamID, proc, loopStreamID,
                 demuxPc, ffmpegShouldRun, shut, todo, applied, histVars, pipeVars>>
  /\ UNCHANGED extVars

\* GetScreenSize: width := screenWidth.Load()
SupGetScreenSize ==
  /\ Up
  /\ supPc = "size"
  /\ snap' = [snap EXCEPT !.width = screenWidth]
  /\ supPc' = "sizeH"
  /\ UNCHANGED <<cfgVars, screenVars, ffmpegCmd, ffmpegStreamID, proc, loopStreamID,
                 demuxPc, ffmpegShouldRun, shut, todo, applied, histVars, snapPartial, pipeVars>>
  /\ UNCHANGED extVars

\* GetScreenSize: height := screenHeight.Load(), and the zero test on both.
SupGetScreenHeight ==
  /\ Up
  /\ supPc = "sizeH"
  /\ snap' = [snap EXCEPT
                !.width = IF snap.width = 0 \/ screenHeight = 0
                            THEN minScreenWidth ELSE snap.width,
                !.height = IF snap.width = 0 \/ screenHeight = 0
                             THEN minScreenHeight ELSE screenHeight]
  /\ supPc' = "bump"
  /\ UNCHANGED <<cfgVars, screenVars, ffmpegCmd, ffmpegStreamID, proc, loopStreamID,
                 demuxPc, ffmpegShouldRun, shut, todo, applied, histVars, snapPartial, pipeVars>>
  /\ UNCHANGED extVars

\* Mutant: the new child gets the stream ID of the previous one.
SupBumpNoIncrement ==
  /\ Up
  /\ supPc = "bump"
  /\ loopStreamID' = ffmpegStreamID
  /\ proc' = Append(proc, "unstarted")
  /\ ffmpegCmd' = Len(proc) + 1
  /\ supPc' = "start"
  /\ UNCHANGED <<cfgVars, screenVars, ffmpegStreamID, snap, demuxPc, ffmpegShouldRun,
                 shut, todo, applied, histVars, snapPartial, pipeVars>>
  /\ UNCHANGED extVars

SupBump ==
  /\ Up
  /\ supPc = "bump"
  /\ ffmpegStreamID' = ffmpegStreamID + 1   \* uint32; the wrap is out of reach of a run
  /\ loopStreamID' = ffmpegStreamID'
  /\ proc' = Append(proc, "unstarted")
  /\ ffmpegCmd' = Len(proc) + 1
  /\ supPc' = "start"
  /\ UNCHANGED <<cfgVars, screenVars, snap, demuxPc, ffmpegShouldRun, shut, todo,
                 applied, histVars, snapPartial, pipeVars>>
  /\ UNCHANGED extVars

SupStart ==
  /\ Up
  /\ supPc = "start"
  /\ proc' = [proc EXCEPT ![ffmpegCmd] = "running"]
  /\ demuxPc' = "header"
  /\ supPc' = "wait"
  /\ UNCHANGED <<cfgVars, screenVars, ffmpegCmd, ffmpegStreamID, snap, loopStreamID,
                 ffmpegShouldRun, shut, todo, applied, histVars, snapPartial, pipeVars>>
  /\ UNCHANGED extVars

\* Mutant: the loop goes on without waiting for the de-muxer and the child.
SupWaitEarly ==
  /\ Up
  /\ supPc = "wait"
  /\ demuxPc' = "idle"
  /\ supPc' = "post"
  /\ UNCHANGED <<cfgVars, screenVars, ffmpegCmd, ffmpegStreamID, proc, snap,
                 loopStreamID, ffmpegShouldRun, shut, todo, applied, histVars, snapPartial, pipeVars>>
  /\ UNCHANGED extVars

\* <-doneCh, then cmd.Wait(), which returns once the child has exited
SupWait ==
  /\ Up
  /\ supPc = "wait"
  /\ demuxPc = "done"
  /\ proc[ffmpegCmd] = "exited"
  /\ demuxPc' = "idle"
  /\ proc' = [proc EXCEPT ![ffmpegCmd] = "reaped"]
  /\ supPc' = "post"
  /\ UNCHANGED <<cfgVars, screenVars, ffmpegCmd, ffmpegStreamID, snap, loopStreamID,
                 ffmpegShouldRun, shut, todo, applied, histVars, snapPartial, pipeVars>>
  /\ UNCHANGED extVars

\* Mutant: the loop ends after the first child whatever should-run says.
SupPostNoLoop ==
  /\ Up
  /\ supPc = "post"
  /\ supPc' = "stopped"
  /\ UNCHANGED <<cfgVars, screenVars, ffmpegCmd, ffmpegStreamID, proc, snap,
                 loopStreamID, demuxPc, ffmpegShouldRun, shut, todo, applied,
                 histVars, snapPartial, pipeVars>>
  /\ UNCHANGED extVars

\* the should-run read after Wait, then time.Sleep(1 * time.Second)
SupPost ==
  /\ Up
  /\ supPc = "post"
  /\ supPc' = IF ffmpegShouldRun THEN "check" ELSE "stopped"
  /\ UNCHANGED <<cfgVars, screenVars, ffmpegCmd, ffmpegStreamID, proc, snap,
                 loopStreamID, demuxPc, ffmpegShouldRun, shut, todo, applied,
                 histVars, snapPartial, pipeVars>>
  /\ UNCHANGED extVars

\* ------------------------------------------------------------------ splitIVF
\* The 32-byte header: read and valid, or unreadable / not "DKIF".
DemuxHeader ==
  /\ Up
  /\ demuxPc = "header"
  /\ \/ demuxPc' = "frames" /\ UNCHANGED badHeader
     \/ demuxPc' = "done" /\ badHeader' = loopStreamID
  /\ UNCHANGED <<cfgVars, screenVars, ffmpegCmd, ffmpegStreamID, proc, supPc, snap,
                 loopStreamID, ffmpegShouldRun, shut, todo, applied, histVars, snapPartial, pipeVars>>
  /\ UNCHANGED <<sessVars, rsVars, inVars, ivfVars, msgVars, sigVars, keyVars, obsVars>>

\* Mutant: the end of the encoder's output drops the sessions.
DemuxEOFDropsClients ==
  /\ Up
  /\ demuxPc = "frames"
  /\ proc[ffmpegCmd] = "exited"
  /\ demuxPc' = "done"
  /\ clients' = {}
  /\ UNCHANGED <<cfgVars, screenVars, ffmpegCmd, ffmpegStreamID, proc, supPc, snap,
                 loopStreamID, ffmpegShouldRun, shut, todo, applied, histVars, snapPartial,
                 clock, nFrames, pending, webrtcFrameChan, bufferedFrame,
                 currentStreamID, lastSample, webrtcReady, sendChan>>
  /\ UNCHANGED extVars

\* The frame-header read fails: the child has exited and the pipe is drained.
DemuxEOF ==
  /\ Up
  /\ demuxPc = "frames"
  /\ proc[ffmpegCmd] = "exited"
  /\ demuxPc' = "done"
  /\ UNCHANGED <<cfgVars, screenVars, ffmpegCmd, ffmpegStreamID, proc, supPc, snap,
                 loopStreamID, ffmpegShouldRun, shut, todo, applied, histVars, snapPartial, pipeVars>>
  /\ UNCHANGED extVars

\* ------------------------------------------------------------ encoder child
\* A killed child exits.
KilledExit ==
  /\ \E p \in 1 .. Len(proc) :
       /\ proc[p] = "killed"
       /\ proc' = [proc EXCEPT ![p] = "exited"]
  /\ UNCHANGED <<cfgVars, screenVars, ffmpegCmd, ffmpegStreamID, supPc, snap,
                 loopStreamID, demuxPc, ffmpegShouldRun, shut, todo, applied,
                 histVars, snapPartial, pipeVars>>
  /\ UNCHANGED extVars

\* A running child exits by itself.
Crash ==
  /\ crashes < MaxCrash
  /\ \E p \in 1 .. Len(proc) :
       /\ proc[p] = "running"
       /\ proc' = [proc EXCEPT ![p] = "exited"]
  /\ crashes' = crashes + 1
  /\ UNCHANGED <<cfgVars, screenVars, ffmpegCmd, ffmpegStreamID, supPc, snap,
                 loopStreamID, demuxPc, ffmpegShouldRun, shut, todo, applied,
                 nMsgs, allNoop, onlyQuality, snapPartial, pipeVars>>
  /\ UNCHANGED extVars

\* ------------------------------------------------------------------ shutdown
\* The cleanup task startStreaming registers.
ShutdownCleanup ==
  /\ shut = "no"
  /\ ffmpegShouldRun' = FALSE
  /\ proc' = KillProc(proc, ffmpegCmd)
  /\ shut' = "cleanup"
  /\ UNCHANGED <<cfgVars, screenVars, ffmpegCmd, ffmpegStreamID, supPc, snap,
                 loopStreamID, demuxPc, todo, applied, histVars, snapPartial, pipeVars>>
  /\ UNCHANGED extVars

\* os.Exit(0)
ShutdownExit ==
  /\ shut = "cleanup"
  /\ shut' = "exited"
  /\ UNCHANGED <<cfgVars, screenVars, supVars, ffmpegShouldRun, todo, applied,
                 histVars, snapPartial, pipeVars>>
  /\ UNCHANGED extVars

\* ---------------------------------------------------------------------- Spec
SupStep ==
  \/ SupSnapshot \/ SupGetScreenSize \/ SupGetScreenHeight \/ SupBump \/ SupStart
  \/ SupWait \/ SupPost
  \/ DemuxHeader \/ DemuxEOF

Next ==
  \/ \E c \in Clients : \E m \in ConfigMsgs : RecvConfig(c, m)
  \/ \E c \in Clients : \E r \in ResizeMsgs : RecvResize(c, r[1], r[2])
  \/ \E c \in Clients : ResizeStep(c)
  \/ \E c \in Clients : ApplyOp(c)
  \/ SupSnapshot \/ SupGetScreenSize \/ SupGetScreenHeight \/ SupBump \/ SupStart
  \/ SupWait \/ SupPost
  \/ DemuxHeader \/ DemuxEOF
  \/ KilledExit \/ Crash
  \/ ShutdownCleanup \/ ShutdownExit

Spec == Init /\ [][Next]_vars

LiveNext ==
  \/ \E c \in Clients : \E m \in QualityMsgs : RecvConfig(c, m)
  \/ \E c \in Clients : ApplyOp(c)
  \/ SupSnapshot \/ SupGetScreenSize \/ SupGetScreenHeight \/ SupBump \/ SupStart
  \/ SupWait \/ SupPost
  \/ DemuxHeader \/ DemuxEOF
  \/ KilledExit \/ Crash
  \/ ShutdownCleanup \/ ShutdownExit

\* The scheduler runs every runnable goroutine, a sleep ends, a killed process
\* exits. Nothing obliges a client to send, the child to fail or a signal to come.
LiveSpec ==
  /\ Init /\ [][LiveNext]_vars
  /\ WF_vars(SupStep)
  /\ WF_vars(KilledExit)
  /\ WF_vars(\E c \in Clients : ApplyOp(c))

\* ------------------------------------------------- de-muxer and fan-out
\* splitIVF reads one frame; its callback enters broadcastIVFFrame, which stamps
\* the capture time and offers the frame to the pacing writer's channel.
DemuxFrame ==
  /\ Up
  /\ demuxPc = "frames"
  /\ proc[ffmpegCmd] \in {"running", "killed", "exited"}
  /\ nFrames < MaxFrames
  /\ nFrames' = nFrames + 1
  /\ \E elapsed \in {0, TickNs} :
       /\ clock' = clock + elapsed
       /\ LET f == [Data |-> nFrames', StreamID |-> loopStreamID, CaptureTime |-> clock',
                    src |-> ffmpegCmd]
          IN /\ webrtcFrameChan' = TrySend(webrtcFrameChan, f)
             /\ pending' = f
             /\ rtcDropped' = IF Len(webrtcFrameChan) < MaxQueue
                                 THEN rtcDropped ELSE rtcDropped \cup {f.Data}
  /\ demuxPc' = "fanout"
  /\ UNCHANGED <<cfgVars, screenVars, ffmpegCmd, ffmpegStreamID, proc, supPc, snap,
                 loopStreamID, ffmpegShouldRun, shut, todo, applied, histVars,
                 snapPartial, bufferedFrame, currentStreamID, lastSample,
                 clients, webrtcReady, sendChan>>
  /\ UNCHANGED <<sessVars, rsVars, inVars, ivfVars, msgVars, sigVars, keyVars, badHeader>>
  /\ UNCHANGED wrote

\* Mutant: the fan-out does not look at the flag.
OfferedAlways(c) == c \in Clients

\* Whether the fan-out offers the packet to client c.
Offered(c) == ~webrtcReady[c]

\* broadcastIVFFrame's loop over the registry, one clientsMutex section.
Broadcast ==
  /\ Up
  /\ demuxPc = "fanout"
  /\ sendChan' = [c \in Clients |->
                    IF c \in clients /\ Offered(c)
                      THEN TrySend(sendChan[c], pending) ELSE sendChan[c]]
  /\ pending' = NoFrame
  /\ demuxPc' = "frames"
  /\ UNCHANGED <<cfgVars, screenVars, ffmpegCmd, ffmpegStreamID, proc, supPc, snap,
                 loopStreamID, ffmpegShouldRun, shut, todo, applied, histVars,
                 snapPartial, clock, nFrames, webrtcFrameChan, bufferedFrame,
                 currentStreamID, lastSample, clients, webrtcReady>>
  /\ UNCHANGED extVars

\* case "webrtc_ready", one clientsMutex section.
RecvWebrtcReady(c) ==
  /\ Up
  /\ sess[c] = "open"
  /\ todo[c] = << >>
  /\ rsPc[c] = "idle"
  /\ c \in clients
  /\ webrtcReady' = [webrtcReady EXCEPT ![c] = TRUE]
  /\ UNCHANGED <<cfgVars, screenVars, supVars, ffmpegShouldRun, shut, todo, applied,
                 histVars, snapPartial, clock, nFrames, pending, webrtcFrameChan,
                 bufferedFrame, currentStreamID, lastSample, clients, sendChan>>
  /\ UNCHANGED extVars

\* The session's binary-write worker takes one packet and writes it.
WsWrite(c) ==
  /\ Up
  /\ sendChan[c] # << >>
  /\ sendChan' = [sendChan EXCEPT ![c] = Tail(@)]
  /\ UNCHANGED <<cfgVars, screenVars, supVars, ffmpegShouldRun, shut, todo, applied,
                 histVars, snapPartial, clock, nFrames, pending, webrtcFrameChan,
                 bufferedFrame, currentStreamID, lastSample, clients, webrtcReady>>
  /\ UNCHANGED extVars

\* ------------------------------------------------------------ pacing writer
Sample(f, d, path) ==
  [Data |-> f.Data, StreamID |-> f.StreamID, src |-> f.src, Duration |-> d, path |-> path,
   epochNow |-> ffmpegStreamID]

\* Mutant: the capture-time gap is used as it is.
GapDurationNoFloor(next, held) == next.CaptureTime - held.CaptureTime

\* The duration of the same-epoch write.
GapDuration(next, held) ==
  LET d == next.CaptureTime - held.CaptureTime
  IN IF d <= 0 THEN 1 * Microsecond ELSE d

\* The first frame is held.
WriterFirst ==
  /\ Up
  /\ webrtcFrameChan # << >>
  /\ bufferedFrame = NoFrame
  /\ bufferedFrame' = Head(webrtcFrameChan)
  /\ currentStreamID' = Head(webrtcFrameChan).StreamID
  /\ webrtcFrameChan' = Tail(webrtcFrameChan)
  /\ UNCHANGED <<cfgVars, screenVars, supVars, ffmpegShouldRun, shut, todo, applied,
                 histVars, snapPartial, clock, nFrames, pending, lastSample,
                 clients, webrtcReady, sendChan>>
  /\ UNCHANGED <<sessVars, rsVars, inVars, ivfVars, msgVars, sigVars, keyVars, badHeader>>
  /\ UNCHANGED obsVars

\* Mutant: the stream-ID comparison is inverted.
WriterFlushSameStream ==
  /\ Up
  /\ webrtcFrameChan # << >>
  /\ bufferedFrame # NoFrame
  /\ Head(webrtcFrameChan).StreamID = currentStreamID
  /\ FPS # 0
  /\ lastSample' = [Data |-> bufferedFrame.Data,
                    StreamID |-> bufferedFrame.StreamID, src |-> bufferedFrame.src,
                    Duration |-> GoDiv(Second, FPS), path |-> "flush",
                    epochNow |-> ffmpegStreamID]
  /\ bufferedFrame' = Head(webrtcFrameChan)
  /\ currentStreamID' = Head(webrtcFrameChan).StreamID
  /\ webrtcFrameChan' = Tail(webrtcFrameChan)
  /\ UNCHANGED <<cfgVars, screenVars, supVars, ffmpegShouldRun, shut, todo, applied,
                 histVars, snapPartial, clock, nFrames, pending, clients,
                 webrtcReady, sendChan>>
  /\ UNCHANGED <<sessVars, rsVars, inVars, ivfVars, msgVars, sigVars, keyVars, badHeader>>
  /\ wrote' = Append(wrote, bufferedFrame.Data)
  /\ UNCHANGED rtcDropped

\* The stream ID changed: the held frame is written with time.Second / FPS.
WriterFlush ==
  /\ Up
  /\ webrtcFrameChan # << >>
  /\ bufferedFrame # NoFrame
  /\ Head(webrtcFrameChan).StreamID # currentStreamID
  /\ FPS # 0
  /\ lastSample' = Sample(bufferedFrame, GoDiv(Second, FPS), "flush")
  /\ bufferedFrame' = Head(webrtcFrameChan)
  /\ currentStreamID' = Head(webrtcFrameChan).StreamID
  /\ webrtcFrameChan' = Tail(webrtcFrameChan)
  /\ UNCHANGED <<cfgVars, screenVars, supVars, ffmpegShouldRun, shut, todo, applied,
                 histVars, snapPartial, clock, nFrames, pending, clients,
                 webrtcReady, sendChan>>
  /\ UNCHANGED <<sessVars, rsVars, inVars, ivfVars, msgVars, sigVars, keyVars, badHeader>>
  /\ wrote' = Append(wrote, bufferedFrame.Data)
  /\ UNCHANGED rtcDropped

\* time.Second / time.Duration(0): the integer division panics and the
\* process dies.
WriterPanic ==
  /\ Up
  /\ webrtcFrameChan # << >>
  /\ bufferedFrame # NoFrame
  /\ Head(webrtcFrameChan).StreamID # currentStreamID
  /\ FPS = 0
  /\ shut' = "panic"
  /\ UNCHANGED <<cfgVars, screenVars, supVars, ffmpegShouldRun, todo, applied,
                 histVars, snapPartial, pipeVars>>
  /\ UNCHANGED <<sessVars, rsVars, inVars, ivfVars, msgVars, sigVars, keyVars, badHeader>>
  /\ UNCHANGED obsVars

\* Mutant: the held frame is written and stays held; the new frame is lost.
WriterGapKeepsHeld ==
  /\ Up
  /\ webrtcFrameChan # << >>
  /\ bufferedFrame # NoFrame
  /\ Head(webrtcFrameChan).StreamID = currentStreamID
  /\ lastSample' = Sample(bufferedFrame,
                          GapDuration(Head(webrtcFrameChan), bufferedFrame), "gap")
  /\ UNCHANGED bufferedFrame
  /\ webrtcFrameChan' = Tail(webrtcFrameChan)
  /\ UNCHANGED <<cfgVars, screenVars, supVars, ffmpegShouldRun, shut, todo, applied,
                 histVars, snapPartial, clock, nFrames, pending, currentStreamID,
                 clients, webrtcReady, sendChan>>
  /\ UNCHANGED <<sessVars, rsVars, inVars, ivfVars, msgVars, sigVars, keyVars, badHeader>>
  /\ wrote' = Append(wrote, bufferedFrame.Data)
  /\ UNCHANGED rtcDropped

\* Same stream: the held frame is written with the capture-time gap.
WriterGap ==
  /\ Up
  /\ webrtcFrameChan # << >>
  /\ bufferedFrame # NoFrame
  /\ Head(webrtcFrameChan).StreamID = currentStreamID
  /\ lastSample' = Sample(bufferedFrame,
                          GapDuration(Head(webrtcFrameChan), bufferedFrame), "gap")
  /\ bufferedFrame' = Head(webrtcFrameChan)
  /\ webrtcFrameChan' = Tail(webrtcFrameChan)
  /\ UNCHANGED <<cfgVars, screenVars, supVars, ffmpegShouldRun, shut, todo, applied,
                 histVars, snapPartial, clock, nFrames, pending, currentStreamID,
                 clients, webrtcReady, sendChan>>
  /\ UNCHANGED <<sessVars, rsVars, inVars, ivfVars, msgVars, sigVars, keyVars, badHeader>>
  /\ wrote' = Append(wrote, bufferedFrame.Data)
  /\ UNCHANGED rtcDropped

\* The encoder, the de-muxer and the pacing writer under framerate changes.
PipeNext ==
  \/ \E c \in Clients : \E m \in FramerateMsgs : nMsgs < MaxFpsMsgs /\ RecvConfig(c, m)
  \/ \E c \in Clients : ApplyOp(c)
  \/ SupSnapshot \/ SupGetScreenSize \/ SupGetScreenHeight \/ SupBump \/ SupStart
  \/ SupWait \/ SupPost
  \/ DemuxHeader \/ DemuxFrame \/ Broadcast \/ DemuxEOF
  \/ KilledExit
  \/ WriterFirst \/ WriterFlush \/ WriterPanic \/ WriterGap

PipeSpec == Init /\ [][PipeNext]_vars

\* The encoder, the de-muxer and the WebSocket fallback sink of every session.
FanNext ==
  \/ \E c \in Clients : RecvWebrtcReady(c)
  \/ \E c \in Clients : WsWrite(c)
  \/ SupSnapshot \/ SupGetScreenSize \/ SupGetScreenHeight \/ SupBump \/ SupStart
  \/ SupWait \/ SupPost
  \/ DemuxHeader \/ DemuxFrame \/ Broadcast \/ DemuxEOF
  \/ Crash

FanSpec == Init /\ [][FanNext]_vars

\* ---------------------------------------------------------------- sessions
SessOther ==
  UNCHANGED <<cfgVars, screenVars, supVars, ffmpegShouldRun, shut, todo, applied,
              histVars, snapPartial, clock, nFrames, pending, webrtcFrameChan,
              bufferedFrame, currentStreamID, lastSample, webrtcReady, sendChan,
              sendClosed, rsVars, inVars, ivfVars, msgVars, sigVars, keyVars, badHeader, obsVars>>

\* case "webrtc_offer": a previous peer connection is closed and
\* createPeerConnection makes the new one, or fails and leaves pc nil.
RecvWebrtcOffer(c) ==
  /\ Up
  /\ sess[c] = "open"
  /\ todo[c] = << >>
  /\ rsPc[c] = "idle"
  /\ \/ pc' = [pc EXCEPT ![c] = "open"]
     \/ pc' = [pc EXCEPT ![c] = "none"]
  /\ pc'[c] # pc[c]
  /\ UNCHANGED <<clients, sess>>
  /\ SessOther

\* conn.ReadMessage fails: the read loop ends.
Disconnect(c) ==
  /\ Up
  /\ sess[c] = "open"
  /\ todo[c] = << >>
  /\ rsPc[c] = "idle"
  /\ sess' = [sess EXCEPT ![c] = "closePc"]
  /\ UNCHANGED <<clients, pc>>
  /\ SessOther

\* The deferred calls run last-registered first: pc.Close() when pc != nil,
DeferPcClose(c) ==
  /\ Up
  /\ sess[c] = "closePc"
  /\ pc' = [pc EXCEPT ![c] = IF @ = "open" THEN "closed" ELSE @]
  /\ sess' = [sess EXCEPT ![c] = "unregister"]
  /\ UNCHANGED clients
  /\ SessOther

\* then delete(clients, conn) under clientsMutex,
DeferUnregister(c) ==
  /\ Up
  /\ sess[c] = "unregister"
  /\ clients' = clients \ {c}
  /\ sess' = [sess EXCEPT ![c] = "closeConn"]
  /\ UNCHANGED pc
  /\ SessOther

\* then conn.Close(); wsHandler returns. Nothing closes client.sendChan.
DeferConnClose(c) ==
  /\ Up
  /\ sess[c] = "closeConn"
  /\ sess' = [sess EXCEPT ![c] = "returned"]
  /\ UNCHANGED <<clients, pc>>
  /\ SessOther

\* The sessions' lives, the fan-out and the encoder's restarts.
SessNext ==
  \/ \E c \in Clients : RecvWebrtcOffer(c)
  \/ \E c \in Clients : RecvWebrtcReady(c)
  \/ \E c \in Clients : Disconnect(c)
  \/ \E c \in Clients : DeferPcClose(c)
  \/ \E c \in Clients : DeferUnregister(c)
  \/ \E c \in Clients : DeferConnClose(c)
  \/ \E c \in Clients : WsWrite(c)
  \/ SupSnapshot \/ SupGetScreenSize \/ SupGetScreenHeight \/ SupBump \/ SupStart
  \/ SupWait \/ SupPost
  \/ DemuxHeader \/ (nFrames < MaxSessFrames /\ DemuxFrame) \/ Broadcast \/ DemuxEOF
  \/ Crash

SessSpec == Init /\ [][SessNext]_vars

\* ------------------------------------------------------------- ScreenState
\* The resize handlers of the sessions and the supervisor.
ScreenNext ==
  \/ \E c \in Clients : \E r \in ScreenMsgs : RecvResize(c, r[1], r[2])
  \/ \E c \in Clients : ResizeStep(c)
  \/ \E c \in Clients : ApplyOp(c)
  \/ SupSnapshot \/ SupGetScreenSize \/ SupGetScreenHeight \/ SupBump \/ SupStart
  \/ SupWait \/ SupPost
  \/ DemuxHeader \/ DemuxEOF
  \/ KilledExit

\* Every goroutine is scheduled and a killed child exits.
ScreenSpec ==
  /\ Init /\ [][ScreenNext]_vars
  /\ WF_vars(SupStep)
  /\ WF_vars(KilledExit)
  /\ WF_vars(\E c \in Clients : ApplyOp(c))
  /\ WF_vars(\E c \in Clients : ResizeStep(c))

\* ------------------------------------------------------------ input coalescer
\* keyMap after init(): each pair is a key and its xdotool name, as byte codes.
\* Control, Shift, Alt, Meta, Enter, Backspace, ArrowUp, ArrowDown, ArrowLeft,
\* ArrowRight, Escape, Tab, Home, End, PageUp, PageDown, Delete, Insert, the
\* space, the punctuation marks # $ % & ( ) * + , - . / : ; < = > ? @ [ \ ] ^ _ `
\* { | } ~ " ' ! and F1 .. F12.
keyMap ==
  {
    <<<<67, 111, 110, 116, 114, 111, 108>>, <<67, 111, 110, 116, 114, 111, 108, 95, 76>>>>,
    <<<<83, 104, 105, 102, 116>>, <<83, 104, 105, 102, 116, 95, 76>>>>,
    <<<<65, 108, 116>>, <<65, 108, 116, 95, 76>>>>,
    <<<<77, 101, 116, 97>>, <<83, 117, 112, 101, 114, 95, 76>>>>,
    <<<<69, 110, 116, 101, 114>>, <<82, 101, 116, 117, 114, 110>>>>,
    <<<<66, 97, 99, 107, 115, 112, 97, 99, 101>>, <<66, 97, 99, 107, 83, 112, 97, 99, 101>>>>,
    <<<<65, 114, 114, 111, 119, 85, 112>>, <<85, 112>>>>,
    <<<<65, 114, 114, 111, 119, 68, 111, 119, 110>>, <<68, 111, 119, 110>>>>,
    <<<<65, 114, 114, 111, 119, 76, 101, 102, 116>>, <<76, 101, 102, 116>>>>,
    <<<<65, 114, 114, 111, 119, 82, 105, 103, 104, 116>>, <<82, 105, 103, 104, 116>>>>,
    <<<<69, 115, 99, 97, 112, 101>>, <<69, 115, 99, 97, 112, 101>>>>,
    <<<<84, 97, 98>>, <<84, 97, 98>>>>,
    <<<<72, 111, 109, 101>>, <<72, 111, 109, 101>>>>,
    <<<<69, 110, 100>>, <<69, 110, 100>>>>,
    <<<<80, 97, 103, 101, 85, 112>>, <<80, 97, 103, 101, 95, 85, 112>>>>,
    <<<<80, 97, 103, 101, 68, 111, 119, 110>>, <<80, 97, 103, 101, 95, 68, 111, 119, 110>>>>,
    <<<<68, 101, 108, 101, 116, 101>>, <<68, 101, 108, 101, 116, 101>>>>,
    <<<<73, 110, 115, 101, 114, 116>>, <<73, 110, 115, 101, 114, 116>>>>,
    <<<<32>>, <<115, 112, 97, 99, 101>>>>,
    <<<<35>>, <<110, 117, 109, 98, 101, 114, 115, 105, 103, 110>>>>,
    <<<<36>>, <<100, 111, 108, 108, 97, 114>>>>,
    <<<<37>>, <<112, 101, 114, 99, 101, 110, 116>>>>,
    <<<<38>>, <<97, 109, 112, 101, 114, 115, 97, 110, 100>>>>,
    <<<<40>>, <<112, 97, 114, 101, 110, 108, 101, 102, 116>>>>,
    <<<<41>>, <<112, 97, 114, 101, 110, 114, 105, 103, 104, 116>>>>,
    <<<<42>>, <<97, 115, 116, 101, 114, 105, 115, 107>>>>,
    <<<<43>>, <<112, 108, 117, 115>>>>,
    <<<<44>>, <<99, 111, 109, 109, 97>>>>,
    <<<<45>>, <<109, 105, 110, 117, 115>>>>,
    <<<<46>>, <<112, 101, 114, 105, 111, 100>>>>,
    <<<<47>>, <<115, 108, 97, 115, 104>>>>,
    <<<<58>>, <<99, 111, 108, 111, 110>>>>,
    <<<<59>>, <<115, 101, 109, 105, 99, 111, 108, 111, 110>>>>,
    <<<<60>>, <<108, 101, 115, 115>>>>,
    <<<<61>>, <<101, 113, 117, 97, 108>>>>,
    <<<<62>>, <<103, 114, 101, 97, 116, 101, 114>>>>,
    <<<<63>>, <<113, 117, 101, 115, 116, 105, 111, 110>>>>,
    <<<<64>>, <<97, 116>>>>,
    <<<<91>>, <<98, 114, 97, 99, 107, 101, 116, 108, 101, 102, 116>>>>,
    <<<<92>>, <<98, 97, 99, 107, 115, 108, 97, 115, 104>>>>,
    <<<<93>>, <<98, 114, 97, 99, 107, 101, 116, 114, 105, 103, 104, 116>>>>,
    <<<<94>>, <<97, 115, 99, 105, 105, 99, 105, 114, 99, 117, 109>>>>,
    <<<<95>>, <<117, 110, 100, 101, 114, 115, 99, 111, 114, 101>>>>,
    <<<<96>>, <<103, 114, 97, 118, 101>>>>,
    <<<<123>>, <<98, 114, 97, 99, 101, 108, 101, 102, 116>>>>,
    <<<<124>>, <<98, 97, 114>>>>,
    <<<<125>>, <<98, 114, 97, 99, 101, 114, 105, 103, 104, 116>>>>,
    <<<<126>>, <<97, 115, 99, 105, 105, 116, 105, 108, 100, 101>>>>,
    <<<<34>>, <<113, 117, 111, 116, 101, 100, 98, 108>>>>,
    <<<<39>>, <<97, 112, 111, 115, 116, 114, 111, 112, 104, 101>>>>,
    <<<<33>>, <<101, 120, 99, 108, 97, 109>>>>,
    <<<<70, 49>>, <<70, 49>>>>,
    <<<<70, 50>>, <<70, 50>>>>,
    <<<<70, 51>>, <<70, 51>>>>,
    <<<<70, 52>>, <<70, 52>>>>,
    <<<<70, 53>>, <<70, 53>>>>,
    <<<<70, 54>>, <<70, 54>>>>,
    <<<<70, 55>>, <<70, 55>>>>,
    <<<<70, 56>>, <<70, 56>>>>,
    <<<<70, 57>>, <<70, 57>>>>,
    <<<<70, 49, 48>>, <<70, 49, 48>>>>,
    <<<<70, 49, 49>>, <<70, 49, 49>>>>,
    <<<<70, 49, 50>>, <<70, 49, 50>>>>
  }

mapped(key) == \E e \in keyMap : e[1] = key

\* xKey, mapped := keyMap[task.Key]; if !mapped { xKey = task.Key }
xKey(key) == IF mapped(key) THEN (CHOOSE e \in keyMap : e[1] = key)[2] ELSE key

\* The bytes of [a-zA-Z0-9_\-].
NameByte == (97..122) \cup (65..90) \cup (48..57) \cup {95, 45}

\* validNameRe.MatchString: ^[a-zA-Z0-9_\-]+$
validNameRe(x) == Len(x) >= 1 /\ \A i \in 1..Len(x) : x[i] \in NameByte

\* len(task.Key) == 1 && task.Key[0] >= 32 && task.Key[0] <= 126
isPrintableSingle(key) == Len(key) = 1 /\ key[1] >= 32 /\ key[1] <= 126

\* Mutant: every key goes to xdotool.
KeySpawnsAlways(key) == Len(key) >= 0

\* execTask, case "key": the early return is not taken.
KeySpawns(key) == ~(~mapped(key) /\ ~validNameRe(xKey(key)) /\ ~isPrintableSingle(key))

\* The keys of the key tasks of the coalescer's runs: Enter and e-acute (two
\* bytes).
InputKeys == { <<69, 110, 116, 101, 114>>, <<195, 169>> }

\* Keys of every class: Enter, a, Left (a name), ";" (in the dictionary) --
\* and e-acute, "a b", DEL, the empty string, "a" and a line feed.
KeyCases ==
  { <<69, 110, 116, 101, 114>>, <<97>>, <<76, 101, 102, 116>>, <<59>>,
    <<195, 169>>, <<97, 32, 98>>, <<127>>, << >>, <<97, 10>> }

\* Mutant: a full queue drops its oldest task to take the new one.
InTrySendDropOldest(ch, x) ==
  IF Len(ch) < MaxInQueue THEN Append(ch, x) ELSE Append(Tail(ch), x)

\* injectKey / injectMouseMove / injectMouseButton: select with a default case
\* on inputChan, whose capacity is MaxInQueue here.
InTrySend(ch, x) == IF Len(ch) < MaxInQueue THEN Append(ch, x) ELSE ch

\* What an inject* call of a task of type ty (and key k) does, and what it
\* leaves behind in the history.
InjectTask(ty, k) ==
  /\ Up
  /\ nSubmitted < MaxTasks
  /\ nSubmitted' = nSubmitted + 1
  /\ LET t == [Type |-> ty, id |-> nSubmitted + 1]
     IN /\ inputChan' = InTrySend(inputChan, t)
        /\ accepted' = IF Len(inputChan) < MaxInQueue
                         THEN accepted \cup {t} ELSE accepted
        /\ superseded' =
             IF /\ ty = "mousemove"
                /\ Len(inputChan) < MaxInQueue
                /\ inputChan # << >>
                /\ inputChan[Len(inputChan)].Type = "mousemove"
               THEN superseded \cup {inputChan[Len(inputChan)].id}
               ELSE superseded
  /\ moveSubAt' = IF ty = "mousemove" THEN Append(moveSubAt, nowMs) ELSE moveSubAt
  /\ taskKey' = [taskKey EXCEPT ![nSubmitted + 1] = k]
  /\ UNCHANGED <<inPc, pendingMove, nextTask, lastMouseTime, nowMs, dispatched, stalled, xdo>>
  /\ UNCHANGED <<cfgVars, screenVars, supVars, ffmpegShouldRun, shut, todo, applied,
                 histVars, snapPartial, pipeVars, sessVars, rsVars,
                 ivfVars, msgVars, sigVars, obsVars, badHeader>>

Inject(ty) == \E k \in (IF ty = "key" THEN InputKeys ELSE {<< >>}) : InjectTask(ty, k)

injectKey == Inject("key")

injectMouseMove == Inject("mousemove")

injectMouseButton == Inject("mousebtn")

\* time.Since(lastMouseTime) > 8*time.Millisecond
SinceOk == nowMs - lastMouseTime > MouseGapMs

\* execMouseMove / execTask: xdotool is started for the task.
Exec(t) == Append(dispatched, [Type |-> t.Type, id |-> t.id, at |-> nowMs])

NotInput ==
  UNCHANGED <<cfgVars, screenVars, supVars, ffmpegShouldRun, shut, todo, applied,
              histVars, snapPartial, pipeVars, sessVars, rsVars,
              ivfVars, msgVars, sigVars, obsVars, badHeader>>

\* What the call recorded last in dispatched starts: execMouseMove and the
\* "mousebtn" case always start xdotool, the "key" case unless it returns early.
Started(d) ==
  IF d.Type = "key"
    THEN IF KeySpawns(taskKey[d.id])
           THEN Append(xdo, [id |-> d.id, Type |-> d.Type, arg |-> xKey(taskKey[d.id])])
           ELSE xdo
    ELSE Append(xdo, [id |-> d.id, Type |-> d.Type, arg |-> << >>])

\* A step of the worker leaves the submissions alone; when it dispatched a
\* task, the task's xdotool command is started.
InOther ==
  /\ NotInput
  /\ UNCHANGED <<nSubmitted, accepted, superseded, moveSubAt, stalled, taskKey>>
  /\ xdo' = IF dispatched' = dispatched THEN xdo ELSE Started(dispatched'[Len(dispatched')])

\* "for task := range inputChan": a move becomes pendingMove, any other task
\* is executed at once.
InRecv ==
  /\ Up
  /\ inPc = "recv"
  /\ inputChan # << >>
  /\ inputChan' = Tail(inputChan)
  /\ IF Head(inputChan).Type = "mousemove"
       THEN /\ pendingMove' = Head(inputChan)
            /\ inPc' = "loop"
            /\ UNCHANGED dispatched
       ELSE /\ dispatched' = Exec(Head(inputChan))
            /\ inPc' = "taskRet"
            /\ UNCHANGED pendingMove
  /\ UNCHANGED <<nextTask, lastMouseTime, nowMs>>
  /\ InOther

\* Mutant: the run is not drained; the first move of a run goes to the rate limit.
InLoopNoCoalesce ==
  /\ Up
  /\ inPc = "loop"
  /\ inPc' = "final"
  /\ UNCHANGED <<inputChan, pendingMove, nextTask, lastMouseTime, nowMs, dispatched>>
  /\ InOther

\* "for len(inputChan) > 0": the next queued task is taken; a move replaces
\* pendingMove, any other task ends the run.
InLoop ==
  /\ Up
  /\ inPc = "loop"
  /\ IF inputChan = << >>
       THEN /\ inPc' = "final"
            /\ UNCHANGED <<inputChan, pendingMove, nextTask>>
       ELSE /\ inputChan' = Tail(inputChan)
            /\ IF Head(inputChan).Type = "mousemove"
                 THEN /\ pendingMove' = Head(inputChan)
                      /\ UNCHANGED <<nextTask, inPc>>
                 ELSE /\ nextTask' = Head(inputChan)
                      /\ inPc' = "flushCheck"
                      /\ UNCHANGED pendingMove
  /\ UNCHANGED <<lastMouseTime, nowMs, dispatched>>
  /\ InOther

\* The rate limit before the task that ended the run.
InFlushCheck ==
  /\ Up
  /\ inPc = "flushCheck"
  /\ inPc' = IF SinceOk THEN "flushExec" ELSE "execNext"
  /\ UNCHANGED <<inputChan, pendingMove, nextTask, lastMouseTime, nowMs, dispatched>>
  /\ InOther

InFlushExec ==
  /\ Up
  /\ inPc = "flushExec"
  /\ dispatched' = Exec(pendingMove)
  /\ inPc' = "flushStamp"
  /\ UNCHANGED <<inputChan, pendingMove, nextTask, lastMouseTime, nowMs>>
  /\ InOther

InFlushStamp ==
  /\ Up
  /\ inPc = "flushStamp"
  /\ lastMouseTime' = nowMs
  /\ inPc' = "execNext"
  /\ UNCHANGED <<inputChan, pendingMove, nextTask, nowMs, dispatched>>
  /\ InOther

\* Mutant: the task that ended the run is forgotten.
InExecNextDropped ==
  /\ Up
  /\ inPc = "execNext"
  /\ pendingMove' = NoTask
  /\ nextTask' = NoTask
  /\ inPc' = "recv"
  /\ UNCHANGED <<inputChan, lastMouseTime, nowMs, dispatched>>
  /\ InOther

\* execTask(nextTask); pendingMove = inputTask{}; break. The test after the
\* loop then finds no pending move.
InExecNext ==
  /\ Up
  /\ inPc = "execNext"
  /\ dispatched' = Exec(nextTask)
  /\ pendingMove' = NoTask
  /\ nextTask' = NoTask
  /\ inPc' = "taskRet"
  /\ UNCHANGED <<inputChan, lastMouseTime, nowMs>>
  /\ InOther

\* execTask returns: cmd.Start() has forked xdotool. With pendingMove empty the
\* test after the loop does nothing.
InTaskRet ==
  /\ Up
  /\ inPc = "taskRet"
  /\ inPc' = "recv"
  /\ UNCHANGED <<inputChan, pendingMove, nextTask, lastMouseTime, nowMs, dispatched>>
  /\ InOther

\* The queue ran empty: the rate limit for the pending move.
InFinalCheck ==
  /\ Up
  /\ inPc = "final"
  /\ IF pendingMove.Type = "mousemove" /\ SinceOk
       THEN /\ inPc' = "finalExec"
            /\ UNCHANGED pendingMove
       ELSE /\ inPc' = "recv"
            /\ pendingMove' = NoTask
  /\ UNCHANGED <<inputChan, nextTask, lastMouseTime, nowMs, dispatched>>
  /\ InOther

InFinalExec ==
  /\ Up
  /\ inPc = "finalExec"
  /\ dispatched' = Exec(pendingMove)
  /\ inPc' = "finalStamp"
  /\ UNCHANGED <<inputChan, pendingMove, nextTask, lastMouseTime, nowMs>>
  /\ InOther

InFinalStamp ==
  /\ Up
  /\ inPc = "finalStamp"
  /\ lastMouseTime' = nowMs
  /\ pendingMove' = NoTask
  /\ inPc' = "recv"
  /\ UNCHANGED <<inputChan, nextTask, nowMs, dispatched>>
  /\ InOther

\* The worker waits for a task, or is inside a call that starts xdotool.
InWaitOrExec ==
  \/ inPc = "recv" /\ inputChan = << >>
  \/ inPc \in {"flushStamp", "finalStamp", "taskRet"}

\* Time passes, wherever the worker is.
InTick ==
  /\ nowMs < MaxNowMs
  /\ nowMs' = nowMs + TickMs
  /\ stalled' = (stalled \/ ~InWaitOrExec)
  /\ UNCHANGED <<inputChan, inPc, pendingMove, nextTask, lastMouseTime, dispatched,
                 nSubmitted, accepted, superseded, moveSubAt, keyVars>>
  /\ NotInput

InWorker ==
  \/ InRecv \/ InLoop \/ InFlushCheck \/ InFlushExec \/ InFlushStamp
  \/ InExecNext \/ InTaskRet \/ InFinalCheck \/ InFinalExec \/ InFinalStamp

\* The input worker with the three inject functions and the clock.
InputNext ==
  \/ injectKey \/ injectMouseMove \/ injectMouseButton
  \/ InRecv \/ InLoop \/ InFlushCheck \/ InFlushExec \/ InFlushStamp
  \/ InExecNext \/ InTaskRet \/ InFinalCheck \/ InFinalExec \/ InFinalStamp
  \/ InTick

\* The worker goroutine is scheduled; nothing obliges a client to send.
InputSpec == Init /\ [][InputNext]_vars /\ WF_vars(InWorker)

\* Key and button tasks of every class of key, and the worker.
KeyNext ==
  \/ \E k \in KeyCases : InjectTask("key", k)
  \/ injectMouseButton
  \/ InRecv \/ InTaskRet

KeySpec == Init /\ [][KeyNext]_vars /\ WF_vars(InWorker)

\* ------------------------------------------------------- spawn and ping
\* case "spawn": the allow-list (a map[string]bool, so the look-up is exact).
allowed ==
  {"gnome-calculator", "weston-terminal", "gedit", "mousepad", "xclock", "xeyes",
   "xfce4-terminal"}

\* Values of the "command" field: isString is the outcome of msg["command"].(string).
SpawnCommands ==
  { [isString |-> TRUE, s |-> x] :
      x \in allowed \cup {"", "xterm", "XEYES", "xeyes ", "/usr/bin/xeyes", "gedit;xterm"} }
  \cup { [isString |-> FALSE, s |-> "xeyes"] }

\* State that neither spawn nor ping touches.
MsgOther ==
  UNCHANGED <<cfgVars, screenVars, supVars, ffmpegShouldRun, shut, todo, applied,
              histVars, snapPartial, pipeVars, sessVars, rsVars, inVars, ivfVars, obsVars,
              keyVars, badHeader, sigVars>>

\* Mutant: the command is started without looking at the list.
RecvSpawnAny(c, cmd) ==
  /\ Up
  /\ sess[c] = "open"
  /\ Len(msgLog) < MaxCtl
  /\ msgLog' = Append(msgLog, [type |-> "spawn", client |-> c, v |-> cmd])
  /\ spawned' = IF cmd.isString THEN Append(spawned, cmd.s) ELSE spawned
  /\ UNCHANGED pongs
  /\ MsgOther

\* case "spawn": spawnApp(cmd, Display) for a command of the list.
RecvSpawn(c, cmd) ==
  /\ Up
  /\ sess[c] = "open"
  /\ Len(msgLog) < MaxCtl
  /\ msgLog' = Append(msgLog, [type |-> "spawn", client |-> c, v |-> cmd])
  /\ spawned' = IF cmd.isString /\ cmd.s \in allowed THEN Append(spawned, cmd.s) ELSE spawned
  /\ UNCHANGED pongs
  /\ MsgOther

\* A JSON number is written hi * 2^27 + lo here, which covers the integers
\* below 2^54 in 32-bit arithmetic.
Word == 134217728

Num(hi, lo) == [isNumber |-> TRUE, hi |-> hi, lo |-> lo]

\* Mutant: the timestamp loses its low bits.
Float64Coarse(n) == Num(n.hi, 0)

\* json.Unmarshal into interface{} gives a float64: an integer up to 2^53 is
\* kept, between 2^53 and 2^54 it is rounded to a multiple of 2, ties to the
\* even mantissa.
Float64(n) ==
  IF n.hi < 67108864 \/ n.lo % 2 = 0 THEN n
  ELSE IF ((n.lo - 1) \div 2) % 2 = 0 THEN Num(n.hi, n.lo - 1)
  ELSE IF n.lo + 1 = Word THEN Num(n.hi + 1, 0)
  ELSE Num(n.hi, n.lo + 1)

\* Values of the "timestamp" field: 0, a Date.now() value, 2^53, 2^53 + 1,
\* 2^53 + 3, and a string.
Timestamps ==
  { Num(0, 0), Num(13127, 123884544), Num(67108864, 0), Num(67108864, 1),
    Num(67108864, 3), [isNumber |-> FALSE, hi |-> 0, lo |-> 0] }

\* case "ping": writeJSON({"type": "pong", "timestamp": ts}) on this session.
RecvPing(c, ts) ==
  /\ Up
  /\ sess[c] = "open"
  /\ Len(msgLog) < MaxCtl
  /\ msgLog' = Append(msgLog, [type |-> "ping", client |-> c, v |-> ts])
  /\ pongs' = IF ts.isNumber THEN [pongs EXCEPT ![c] = Append(@, Float64(ts))] ELSE pongs
  /\ UNCHANGED spawned
  /\ MsgOther

MsgNext ==
  \/ \E c \in Clients : \E cmd \in SpawnCommands : RecvSpawn(c, cmd)
  \/ \E c \in Clients : \E ts \in Timestamps : RecvPing(c, ts)
  \/ \E c \in Clients : Disconnect(c)

MsgSpec == Init /\ [][MsgNext]_vars

\* ------------------------------------------------- splitIVF, byte by byte
DKIF == <<68, 75, 73, 70>>

IvfHeaderLen == 32
IvfFrameHeaderLen == 12

\* n bytes of value b.
Fill(n, b) == [i \in 1..n |-> b]

\* The first n bytes of q (all of q when it is shorter).
Take(q, n) == SubSeq(q, 1, IF n < Len(q) THEN n ELSE Len(q))

\* binary.LittleEndian.PutUint32 and Uint32 (the top byte stays below 128 here).
PutUint32(n) ==
  <<n % 256, (n \div 256) % 256, (n \div 65536) % 256, (n \div 16777216) % 256>>

Uint32(b) == b[1] + 256 * b[2] + 65536 * b[3] + 16777216 * b[4]

\* One IVF frame: size, 8 bytes of timestamp, payload.
FrameBytes(p) == PutUint32(Len(p)) \o Fill(8, 9) \o p

RECURSIVE FramesBytes(_)
FramesBytes(ps) ==
  IF ps = << >> THEN << >> ELSE FrameBytes(Head(ps)) \o FramesBytes(Tail(ps))

\* Payload bytes, payloads and lists of payloads of the streams under test.
PayloadByte == {7, 200}

Payloads == UNION { [1..n -> PayloadByte] : n \in 0..MaxPayload }

PayloadLists == UNION { [1..k -> Payloads] : k \in 0..MaxIvfFrames }

\* A frame whose header announces far more bytes than the stream holds.
HugeFrame == PutUint32(16777216 + 65536 + 2) \o Fill(8, 9) \o <<7, 200, 7>>

\* What can follow the last complete frame: nothing, or a frame cut short in
\* its header or in its payload.
IvfTails ==
  { Take(f, n) : f \in { FrameBytes(<<7, 200>>), HugeFrame }, n \in {0, 1, 4, 11, 12, 13} }

IvfMagics == { DKIF, <<68, 75, 73, 71>>, <<0, 0, 0, 0>> }

\* The stream: a header (cut short when hdrLen < 32), the frames, the tail.
IvfStream(in) ==
  IF in.hdrLen < IvfHeaderLen
    THEN Take(in.magic \o Fill(IvfHeaderLen - 4, 0), in.hdrLen)
    ELSE in.magic \o Fill(IvfHeaderLen - 4, 0) \o FramesBytes(in.payloads) \o in.tail

IvfInputs ==
  { [magic |-> m, hdrLen |-> IvfHeaderLen, payloads |-> ps, tail |-> t] :
      m \in IvfMagics, ps \in PayloadLists, t \in IvfTails }
  \cup
  { [magic |-> DKIF, hdrLen |-> n, payloads |-> << >>, tail |-> << >>] : n \in {0, 3, 31} }

\* splitIVF is called on a reader holding one of the streams.
IvfInit ==
  /\ InitServer
  /\ ivfIn \in IvfInputs
  /\ reader = IvfStream(ivfIn)
  /\ ivfPos = 0
  /\ ivfPc = "header"
  /\ frameSize = 0
  /\ ivfOut = << >>
  /\ wrote = << >>
  /\ rtcDropped = {}
  /\ spawned = << >>
  /\ pongs = [c \in Clients |-> << >>]
  /\ msgLog = << >>
  /\ taskKey = [i \in 1..MaxTasks |-> << >>]
  /\ xdo = << >>
  /\ badHeader = 0
  /\ mu = [c \in Clients |-> "free"]
  /\ wr = [c \in Clients |-> {}]
  /\ rdPc = [c \in Clients |-> "read"]
  /\ leaked = [c \in Clients |-> 0]
  /\ lastMsg = NoMsg

\* io.ReadFull(reader, buf) with len(buf) = n succeeds iff n more bytes follow.
CanRead(n) == ivfPos + n <= Len(reader)

ReadBytes(n) == SubSeq(reader, ivfPos + 1, ivfPos + n)

IvfOther ==
  UNCHANGED <<cfgVars, screenVars, supVars, ffmpegShouldRun, shut, todo, applied,
              histVars, snapPartial, pipeVars, sessVars, rsVars, inVars, obsVars, msgVars, sigVars, keyVars,
              badHeader>>

\* The 32-byte header is read and its first four bytes compared with "DKIF".
IvfHeader ==
  /\ ivfPc = "header"
  /\ IF CanRead(IvfHeaderLen)
       THEN /\ ivfPos' = ivfPos + IvfHeaderLen
            /\ ivfPc' = IF SubSeq(ReadBytes(IvfHeaderLen), 1, 4) = DKIF
                          THEN "frameHeader" ELSE "returned"
       ELSE /\ ivfPos' = Len(reader)
            /\ ivfPc' = "returned"
  /\ UNCHANGED <<reader, ivfIn, frameSize, ivfOut>>
  /\ IvfOther

\* The 12-byte frame header is read; frameSize is its first four bytes.
IvfFrameHeader ==
  /\ ivfPc = "frameHeader"
  /\ IF CanRead(IvfFrameHeaderLen)
       THEN /\ frameSize' = Uint32(SubSeq(ReadBytes(IvfFrameHeaderLen), 1, 4))
            /\ ivfPos' = ivfPos + IvfFrameHeaderLen
            /\ ivfPc' = "frameData"
       ELSE /\ ivfPos' = Len(reader)
            /\ ivfPc' = "returned"
            /\ UNCHANGED frameSize
  /\ UNCHANGED <<reader, ivfIn, ivfOut>>
  /\ IvfOther

\* Mutant: a payload that cannot be read in full is emitted as far as it goes.
IvfFrameDataPartial ==
  /\ ivfPc = "frameData"
  /\ IF CanRead(frameSize)
       THEN /\ ivfOut' = Append(ivfOut, ReadBytes(frameSize))
            /\ ivfPos' = ivfPos + frameSize
            /\ ivfPc' = "frameHeader"
       ELSE /\ ivfOut' = Append(ivfOut, SubSeq(reader, ivfPos + 1, Len(reader)))
            /\ ivfPos' = Len(reader)
            /\ ivfPc' = "returned"
  /\ UNCHANGED <<reader, ivfIn, frameSize>>
  /\ IvfOther

\* frameSize bytes are read and handed to onFrame.
IvfFrameData ==
  /\ ivfPc = "frameData"
  /\ IF CanRead(frameSize)
       THEN /\ ivfOut' = Append(ivfOut, ReadBytes(frameSize))
            /\ ivfPos' = ivfPos + frameSize
            /\ ivfPc' = "frameHeader"
       ELSE /\ ivfPos' = Len(reader)
            /\ ivfPc' = "returned"
            /\ UNCHANGED ivfOut
  /\ UNCHANGED <<reader, ivfIn, frameSize>>
  /\ IvfOther

IvfNext == IvfHeader \/ IvfFrameHeader \/ IvfFrameData

IvfSpec == IvfInit /\ [][IvfNext]_vars /\ WF_vars(IvfNext)

\* ------------------------------------------------------------------ claims
Live(p) == proc[p] \in {"running", "killed"}

\* The encoder the supervisor waits on is up and was not told to stop.
Running ==
  /\ supPc = "wait"
  /\ proc[ffmpegCmd] = "running"

SnapConfig == [k \in DOMAIN CurrentConfig |-> snap[k]]

\* No handler is in the middle of a message.
HandlersIdle == \A c \in Clients : todo[c] = << >> /\ rsPc[c] = "idle"

\* C1: at most one encoder child is live in every reachable state; when the
\* supervisor is about to start a child, the de-muxer of the previous one has
\* returned and every earlier child has been waited on.
C1_AtMostOneEncoder ==
  /\ Cardinality({p \in 1 .. Len(proc) : Live(p)}) <= 1
  /\ \A p \in 1 .. Len(proc) - 1 : proc[p] = "reaped"
  /\ supPc \in {"check", "size", "sizeH", "bump", "start"} => demuxPc = "idle"

C1_Witness ==
  /\ Len(proc) >= 3
  /\ proc[3] = "running"
  /\ nMsgs >= 1
  /\ crashes >= 1

\* C2: once the messages have stopped, from some point on, as long as
\* should-run is true and no handler is in the middle of a message, an encoder
\* child is Running whose parameter snapshot equals the current EncoderConfig.
C2_NoLostMutation ==
  <>[]((ffmpegShouldRun /\ HandlersIdle) => (Running /\ SnapConfig = CurrentConfig))

\* C4: one message and no spontaneous exit: the initial start and at most one
\* restart, so StreamEpoch is at most 2.
C4_OneMessageOneRestart ==
  (nMsgs <= 1 /\ crashes = 0) => ffmpegStreamID <= 2

\* C5: no snapshot of the supervisor reflects only part of a config message.
C5_SnapshotAtomic == ~snapPartial

\* C6: as long as every message received left the configuration and the screen
\* size as they were (and the child did not fail, and no shutdown came), no
\* termination was sent and StreamEpoch was not incremented after the boot start.
C6_NoopNoRestart ==
  (allNoop /\ crashes = 0 /\ shut = "no") =>
     /\ ffmpegStreamID <= 1
     /\ \A p \in 1 .. Len(proc) : proc[p] # "killed"

\* C3: whenever the encoder child has exited while should-run is true, a new
\* child is eventually started (or should-run has been cleared); eventually the
\* supervisor is in Running state for good while should-run is true; and while
\* every message received was a config message carrying only quality, the
\* restarts do not outnumber the messages and the spontaneous exits.
ChildGone == Len(proc) > 0 /\ proc[Len(proc)] = "exited" /\ ffmpegShouldRun

ChildUp == Len(proc) > 0 /\ proc[Len(proc)] = "running"

Range(q) == {q[i] : i \in 1 .. Len(q)}

\* C7: a packet is put on a session's outbound queue only in a step in which
\* the session's webrtc_ready flag is false.
C7_QueuedOnlyIfNotReady ==
  [][\A c \in Clients :
       Len(sendChan'[c]) > Len(sendChan[c]) => (~webrtcReady[c] /\ ~webrtcReady'[c])]_vars

\* A frame was fanned out while session 1 was ready and session 2 was not.
C7_Witness ==
  /\ webrtcReady[1]
  /\ ~webrtcReady[2]
  /\ demuxPc = "frames"
  /\ sendChan[1] = << >>
  /\ Len(sendChan[2]) = MaxQueue
  /\ nFrames = MaxQueue

\* C8: every sample written to the track has a duration of at least 1 us.
C8_SampleDurationAtLeast1us ==
  /\ lastSample.path # "none" => lastSample.Duration >= Microsecond
  /\ shut # "panic"

\* C9 as claimed: the written frame's epoch equals the supervisor's StreamEpoch
\* at the moment of the write.
C9_WrittenInCurrentEpoch ==
  lastSample.path # "none" => lastSample.StreamID = lastSample.epochNow

\* C9 as amended: the written frame's epoch is an epoch the supervisor has
\* assigned, at most its StreamEpoch at the moment of the write, and on the
\* cross-epoch flush it is an earlier one.
C9_WrittenEpochNotNewer ==
  lastSample.path # "none" =>
     /\ 1 <= lastSample.StreamID
     /\ lastSample.StreamID <= lastSample.epochNow
     /\ lastSample.path = "flush" => lastSample.StreamID < lastSample.epochNow

C9_Witness ==
  /\ lastSample.path = "flush"
  /\ lastSample.StreamID = 1
  /\ lastSample.epochNow = 2
  /\ bufferedFrame.StreamID = 2

\* The frames the de-muxer has handed over and that are still held somewhere.
InFlight ==
  ({pending, bufferedFrame} \cup Range(webrtcFrameChan)
     \cup UNION {Range(sendChan[c]) : c \in Clients}) \ {NoFrame}

\* C10: StreamEpoch changes only by +1, and does so exactly when the supervisor
\* creates the next encoder child; a frame handed to the fan-out carries the
\* StreamEpoch of the child producing it; frames of different children carry
\* different epochs.
C10_EpochPerChild ==
  /\ [][/\ ffmpegStreamID' # ffmpegStreamID =>
              (ffmpegStreamID' = ffmpegStreamID + 1 /\ Len(proc') = Len(proc) + 1)
        /\ Len(proc') # Len(proc) => ffmpegStreamID' = ffmpegStreamID + 1
        /\ nFrames' # nFrames =>
              (pending'.StreamID = ffmpegStreamID /\ pending'.src = ffmpegCmd)]_vars
  /\ [](\A f, g \in InFlight : f.src # g.src => f.StreamID # g.StreamID)

C10_Witness ==
  /\ bufferedFrame # NoFrame
  /\ bufferedFrame.src = 1
  /\ webrtcFrameChan # << >>
  /\ Head(webrtcFrameChan).src = 2
  /\ Head(webrtcFrameChan).StreamID = 2

\* ------------------------------------------------------- input coalescer claims
DispatchedIds == {dispatched[k].id : k \in 1 .. Len(dispatched)}

MoveDispatches == SelectSeq(dispatched, LAMBDA d : d.Type = "mousemove")

\* C12: every dispatch is of a task that entered the queue, the dispatches follow
\* the submission order with no task dispatched twice (so key and button tasks
\* keep their order and a move of the run before a key/button task is dispatched
\* before that task, never after it), and from some point on every key or
\* button task that entered the queue has been dispatched (a dispatch is never
\* undone, so each of them is eventually dispatched).
C12_KeysOnceInOrder ==
  /\ [](/\ \A k \in 1 .. Len(dispatched) :
             \E t \in accepted : t.id = dispatched[k].id /\ t.Type = dispatched[k].Type
        /\ \A j, k \in 1 .. Len(dispatched) :
             j < k => dispatched[j].id < dispatched[k].id)
  /\ <>[](\A t \in accepted : t.Type # "mousemove" => t.id \in DispatchedIds)

\* A move, then the key and the button that followed it, all dispatched.
C12_Witness ==
  /\ Len(dispatched) = 3
  /\ dispatched[1].Type = "mousemove"
  /\ dispatched[2].Type = "key"
  /\ dispatched[3].Type = "mousebtn"
  /\ dispatched[3].at > dispatched[1].at

\* C13: a move that had another move right behind it in the queue is never
\* dispatched (of a run only the last move can be), and a move is dispatched
\* only when at least 8 ms have passed since the previous move dispatch.
C13_LastOfRunOnly ==
  /\ \A k \in 1 .. Len(dispatched) :
       dispatched[k].Type = "mousemove" => dispatched[k].id \notin superseded
  /\ \A k \in 1 .. Len(MoveDispatches) - 1 :
       MoveDispatches[k + 1].at - MoveDispatches[k].at >= MouseGapMs

\* The last move of a queued run was dispatched a second move dispatch after
\* the first.
C13_Witness ==
  /\ Len(MoveDispatches) = 2
  /\ MoveDispatches[2].id - 1 \in superseded
  /\ inPc = "recv"

CeilDiv(a, b) == (a + b - 1) \div b

\* The length of the shortest window (at least 1 ms) holding every
\* injectMouseMove call so far.
MoveWindowMs ==
  LET d == moveSubAt[Len(moveSubAt)] - moveSubAt[1]
  IN IF d < 1 THEN 1 ELSE d

\* C14: successive move injections are at least 8 ms apart, and the moves
\* submitted within a window of T ms cause at most ceil(T/8) move injections,
\* whatever key or button tasks come between them; stated for the runs in which
\* the worker is never held up except while it waits for a task or starts
\* xdotool.
C14_MoveRateCap ==
  /\ \A k \in 1 .. Len(MoveDispatches) - 1 :
       MoveDispatches[k + 1].at - MoveDispatches[k].at >= MouseGapMs
  /\ (moveSubAt # << >> /\ ~stalled) =>
       Len(MoveDispatches) <= CeilDiv(MoveWindowMs, MouseGapMs)

\* C15: an inject call on a full queue leaves the queue as it was; on a queue
\* with room it appends the new task at the tail.
C15_InjectDropsNewest ==
  [][nSubmitted' # nSubmitted =>
       IF Len(inputChan) >= MaxInQueue
         THEN inputChan' = inputChan
         ELSE \E ty \in {"key", "mousemove", "mousebtn"} :
                inputChan' = Append(inputChan, [Type |-> ty, id |-> nSubmitted'])]_vars

\* A task was discarded on a full queue and the queue still holds the two
\* tasks submitted before it.
C15_Witness ==
  /\ nSubmitted = MaxInQueue + 1
  /\ Len(inputChan) = MaxInQueue
  /\ Cardinality(accepted) = MaxInQueue
  /\ inputChan[1].id = 1

\* ----------------------------------------------------------- ScreenState claims
\* The one resize message of the run asked for a positive size.
OneResize(c) ==
  /\ nMsgs = 1
  /\ rsReq[c].n = 1
  /\ rsReq[c].w > 0
  /\ rsReq[c].h > 0

\* C16: after the only message of a run, a resize(w,h) with w,h > 0, has been
\* handled, ScreenState is the clamped value; it caused at most one restart; and
\* from some point on an encoder is Running that captures at ScreenState's size.
C16_ResizeOneRestart ==
  /\ [](\A c \in Clients : (OneResize(c) /\ HandlersIdle) =>
          (screenWidth = ClampW(rsReq[c].w) /\ screenHeight = ClampH(rsReq[c].h)))
  /\ [](nMsgs <= 1 => ffmpegStreamID <= 2)
  /\ <>[]((nMsgs <= 1 /\ ffmpegShouldRun /\ HandlersIdle) =>
            (Running /\ snap.width = screenWidth /\ snap.height = screenHeight))

\* C17: a step in which SetScreenSize returns false (width or height <= 0, or
\* the clamped size equal to the size it loaded) changes neither ScreenState nor
\* the number of resizeDisplay calls, queues no RestartForResize and signals no
\* process.
C17_NoopResize ==
  [][\A c \in Clients :
       /\ (rsReq'[c] # rsReq[c] /\ (rsReq'[c].w <= 0 \/ rsReq'[c].h <= 0)) =>
            (rsPc'[c] = "idle" /\ UNCHANGED <<screenVars, nDisplayResize, todo, proc>>)
       /\ (rsPc[c] = "loadH" /\ rsPc'[c] # "loadH"
              /\ rsW[c] = rsPrevW[c] /\ rsH[c] = screenHeight) =>
            (rsPc'[c] = "idle" /\ UNCHANGED <<screenVars, nDisplayResize, todo, proc>>)]_vars

\* A resize to more than the maximum, clamped to the current size, and a rejected
\* resize were handled, and the first encoder still runs.
C17_Witness ==
  /\ rsReq[1].w = 5000 /\ rsReq[1].n = 1
  /\ rsReq[2].w = 0 /\ rsReq[2].n = 2
  /\ HandlersIdle
  /\ nDisplayResize = 0
  /\ ffmpegStreamID = 1
  /\ Running

\* C18: ScreenState, which is what GetScreenSize loads, and the size the
\* supervisor got from GetScreenSize stay within 320..3840 by 240..2160.
C18_ScreenBounds ==
  /\ minScreenWidth <= screenWidth /\ screenWidth <= InitMaxWidth
  /\ minScreenHeight <= screenHeight /\ screenHeight <= InitMaxHeight
  /\ supPc \in {"bump", "start", "wait", "post"} =>
       /\ minScreenWidth <= snap.width /\ snap.width <= InitMaxWidth
       /\ minScreenHeight <= snap.height /\ snap.height <= InitMaxHeight

\* The supervisor got the new minimum width with the old maximum height: its
\* two loads fell between the two stores of a resize.
C18_Witness ==
  /\ supPc = "bump"
  /\ snap.width = minScreenWidth
  /\ snap.height = InitMaxHeight

\* ---------------------------------------------------------------- session claims
\* A step of the encoder's restart: a process changes state, the supervisor
\* moves, the de-muxer meets the end of the output, the epoch is bumped.
RestartStep ==
  \/ proc' # proc
  \/ supPc' # supPc
  \/ ffmpegStreamID' # ffmpegStreamID
  \/ demuxPc' # demuxPc /\ demuxPc' \in {"done", "idle", "header"}

\* C11: the steps of an encoder restart leave the registry and every
\* session's handler position, webrtc_ready flag, outbound queue and peer
\* connection as they were.
C11_RestartKeepsSessions ==
  [][RestartStep => UNCHANGED <<clients, sess, webrtcReady, sendChan, sendClosed, pc>>]_vars

\* The second encoder runs and both sessions are as they were before the first
\* one exited: registered, one with a peer connection and ready, the other with
\* a frame of the first encoder still queued.
C11_Witness ==
  /\ ffmpegStreamID = 2
  /\ Running
  /\ clients = Clients
  /\ \A c \in Clients : sess[c] = "open"
  /\ pc[1] = "open"
  /\ webrtcReady[1]
  /\ sendChan[2] # << >>
  /\ Head(sendChan[2]).StreamID = 1

\* C19: once wsHandler has returned for a session, the session is out of the
\* registry, its peer connection (if any) is closed and its outbound binary
\* channel is closed (so that its binary-write worker ends).
C19_SessionCleanup ==
  \A c \in Clients :
    sess[c] = "returned" => (c \notin clients /\ pc[c] # "open" /\ sendClosed[c])

\* C20: once the shutdown cleanup has run, no encoder child is running: none
\* was left running and none is started.
C20_NoChildAfterCleanup ==
  shut \in {"cleanup", "exited"} => \A p \in 1 .. Len(proc) : proc[p] # "running"

\* C21: for a stream made of a 32-byte header starting with "DKIF", k complete
\* frames and possibly a frame cut short, splitIVF has emitted, at every
\* moment, a prefix of the k payloads, byte for byte and in stream order, and
\* it ends having emitted exactly the k payloads: the cut frame emits nothing.
C21_DemuxExact ==
  /\ [](ivfIn.magic = DKIF /\ ivfIn.hdrLen = IvfHeaderLen
          => /\ Len(ivfOut) <= Len(ivfIn.payloads)
             /\ ivfOut = SubSeq(ivfIn.payloads, 1, Len(ivfOut)))
  /\ <>[](ivfIn.magic = DKIF /\ ivfIn.hdrLen = IvfHeaderLen
          => ivfPc = "returned" /\ ivfOut = ivfIn.payloads)

\* Two different payloads were emitted and the frame cut short in its payload
\* ended the de-muxer.
C21_Witness ==
  /\ ivfPc = "returned"
  /\ ivfIn.magic = DKIF
  /\ ivfOut = <<(<<200>>), <<7, 200>>>>
  /\ ivfIn.tail = Take(FrameBytes(<<7, 200>>), 13)

\* Frames in a queue are in production order, and of two frames of one epoch
\* the later one has the later or the same capture time.
InOrder(q) ==
  \A i, j \in 1..Len(q) :
    i < j => /\ q[i].Data < q[j].Data
             /\ q[i].StreamID = q[j].StreamID => q[i].CaptureTime <= q[j].CaptureTime

\* C22: each frame is stamped with a capture time that is not before the
\* previous frame's, and every sink's queue holds the frames in the order the
\* encoder produced them, with non-decreasing capture times within an epoch.
C22_CaptureOrder ==
  /\ [](InOrder(webrtcFrameChan) /\ \A c \in Clients : InOrder(sendChan[c]))
  /\ [][nFrames' # nFrames =>
          /\ pending'.Data = nFrames + 1
          /\ pending'.CaptureTime >= clock
          /\ \A c \in Clients : \A i \in 1..Len(sendChan[c]) :
               sendChan[c][i].Data < pending'.Data]_vars

\* The WebRTC queue holds two frames of the first encoder taken at different
\* times, and session 1's queue holds the last frame of the first encoder
\* followed by the first frame of the second.
C22_Witness ==
  /\ Len(webrtcFrameChan) = 2
  /\ webrtcFrameChan[1].StreamID = webrtcFrameChan[2].StreamID
  /\ webrtcFrameChan[1].CaptureTime < webrtcFrameChan[2].CaptureTime
  /\ Len(sendChan[1]) = 2
  /\ sendChan[1][1].StreamID = 1
  /\ sendChan[1][2].StreamID = 2
  /\ sendChan[1][1].Data = 2

Last(q) == q[Len(q)]

\* Everything but the record of the messages read.
serverVars ==
  <<cfgVars, screenVars, supVars, ffmpegShouldRun, shut, todo, applied, snapPartial,
    pipeVars, sessVars, rsVars, inputChan, inPc, pendingMove, nextTask, lastMouseTime,
    dispatched, ivfVars, keyVars, spawned, pongs>>

\* C23: a spawn message starts its command, once, if and only if the command
\* is a string equal to one of the seven names; any other value starts
\* nothing and leaves the server's state as it was.
C23_SpawnAllowList ==
  [][(msgLog' # msgLog /\ Last(msgLog').type = "spawn") =>
       LET cmd == Last(msgLog').v
       IN IF cmd.isString /\
             cmd.s \in {"gnome-calculator", "weston-terminal", "gedit", "mousepad",
                        "xclock", "xeyes", "xfce4-terminal"}
            THEN spawned' = Append(spawned, cmd.s)
            ELSE UNCHANGED serverVars]_vars

\* One listed command was started and a near miss was not.
C23_Witness ==
  /\ Len(msgLog) = 2
  /\ msgLog[1].v = [isString |-> TRUE, s |-> "xeyes "]
  /\ msgLog[2].v = [isString |-> TRUE, s |-> "xfce4-terminal"]
  /\ spawned = <<"xfce4-terminal">>

\* The integer is a float64: below 2^53, or even (below 2^54).
IsDouble(n) == n.hi < 67108864 \/ n.lo % 2 = 0

KeyPermitted(k) ==
  \/ k \in { e[1] : e \in keyMap }
  \/ k # << >> /\ \A i \in 1..Len(k) :
       k[i] \in (65..90) \cup (97..122) \cup (48..57) \cup {95, 45}
  \/ Len(k) = 1 /\ k[1] \in 32..126

\* C25: xdotool is started for a key task only if its key is in the
\* dictionary, is a name or is one printable ASCII character, with the
\* dictionary's name as its argument; no task starts it twice; and in the end
\* it has been started for every accepted task except the key tasks of other
\* keys, whatever was queued before.
C25_KeyFilter ==
  /\ [](\A i \in 1..Len(xdo) :
          /\ xdo[i].Type = "key" => KeyPermitted(taskKey[xdo[i].id])
          /\ \A j \in 1..Len(xdo) : xdo[i].id = xdo[j].id => i = j)
  /\ [](\A i \in 1..Len(xdo) :
          taskKey[xdo[i].id] = <<69, 110, 116, 101, 114>> =>
            xdo[i].arg = <<82, 101, 116, 117, 114, 110>>)
  /\ <>[](\A t \in accepted :
            (t.Type # "key" \/ KeyPermitted(taskKey[t.id]))
              <=> \E i \in 1..Len(xdo) : xdo[i].id = t.id)

\* A dropped key between two keys that were injected: Enter, e-acute, ";".
C25_Witness ==
  /\ Len(dispatched) = 3
  /\ taskKey[1] = <<69, 110, 116, 101, 114>>
  /\ taskKey[2] = <<195, 169>>
  /\ taskKey[3] = <<59>>
  /\ Len(xdo) = 2
  /\ xdo[1].arg = <<82, 101, 116, 117, 114, 110>>
  /\ xdo[2].id = 3

\* C26: the de-muxer of a child whose header was rejected emits no frame, and,
\* while should-run is true, the supervisor goes on to a new encoder child
\* whatever the rejected child does afterwards.
C26_BadHeaderRestart ==
  /\ [](badHeader # 0 /\ badHeader = ffmpegStreamID => demuxPc \in {"done", "idle"})
  /\ (badHeader # 0 /\ badHeader = ffmpegStreamID /\ ffmpegShouldRun)
       ~> (badHeader # ffmpegStreamID \/ ~ffmpegShouldRun)

\* C27: broadcastIVFFrame never waits. The frame goes to the WebRTC queue
\* unless that is full, and to the queue of every registered session that is
\* not WebRTC-ready unless that queue is full; a full queue is left as it is
\* and the other sinks get the frame; and whatever the queues hold, the
\* fan-out of the frame in hand can take its step.
C27_FanOutNeverBlocks ==
  /\ [](demuxPc = "fanout" /\ Up => ENABLED Broadcast)
  /\ [][nFrames' # nFrames =>
          /\ demuxPc' = "fanout"
          /\ webrtcFrameChan' = IF Len(webrtcFrameChan) >= MaxQueue
                                  THEN webrtcFrameChan
                                  ELSE Append(webrtcFrameChan, pending')]_vars
  /\ [][demuxPc = "fanout" /\ demuxPc' # "fanout" =>
          /\ demuxPc' = "frames"
          /\ \A c \in Clients :
               sendChan'[c] = IF c \in clients /\ ~webrtcReady[c] /\ Len(sendChan[c]) < MaxQueue
                                THEN Append(sendChan[c], pending)
                                ELSE sendChan[c]]_vars

\* The third frame found the WebRTC queue and session 1's queue full and was
\* dropped there, and reached session 2.
C27_Witness ==
  /\ nFrames = 3
  /\ demuxPc = "frames"
  /\ rtcDropped = {3}
  /\ Len(webrtcFrameChan) = MaxQueue
  /\ Len(sendChan[1]) = MaxQueue
  /\ sendChan[1][1].Data = 1
  /\ sendChan[1][2].Data = 2
  /\ sendChan[2] # << >>
  /\ sendChan[2][Len(sendChan[2])].Data = 3

Written == {wrote[i] : i \in 1..Len(wrote)}

Queued == {webrtcFrameChan[i].Data : i \in 1..Len(webrtcFrameChan)}

Held == IF bufferedFrame = NoFrame THEN {} ELSE {bufferedFrame.Data}

\* C28: the frames written to the track are written in the order the
\* de-muxer emitted them and none twice; every emitted frame is exactly one of
\* written, dropped on the full queue, still queued, or held; what is written
\* is older than the held frame, which is older than what is queued.
C28_WrittenSubsequence ==
  /\ \A i, j \in 1..Len(wrote) : i < j => wrote[i] < wrote[j]
  /\ Written \cup rtcDropped \cup Queued \cup Held = 1..nFrames
  /\ Written \cap rtcDropped = {} /\ Written \cap Queued = {} /\ Written \cap Held = {}
  /\ rtcDropped \cap Queued = {} /\ rtcDropped \cap Held = {} /\ Queued \cap Held = {}
  /\ \A w \in Written : \A h \in Held \cup Queued : w < h
  /\ \A h \in Held : \A q \in Queued : h < q
  /\ InOrder(webrtcFrameChan)

\* The first frame was written, the second is held, the third was dropped on
\* the full queue, and nothing is queued.
C28_Witness ==
  /\ wrote = <<1>>
  /\ bufferedFrame.Data = 2
  /\ rtcDropped = {3}
  /\ webrtcFrameChan = << >>

\* C29: a frame is written only in the step that dequeues its successor, which
\* becomes the held frame; for two frames of one epoch the duration is the
\* difference of their capture times, or 1 us when that is not positive; the
\* held frame changes only by a dequeue, and it is never among the written.
C29_OneSlotLookAhead ==
  /\ [](Held \cap Written = {})
  /\ [][wrote' # wrote =>
          /\ bufferedFrame # NoFrame
          /\ webrtcFrameChan # << >>
          /\ wrote' = Append(wrote, bufferedFrame.Data)
          /\ webrtcFrameChan' = Tail(webrtcFrameChan)
          /\ bufferedFrame' = Head(webrtcFrameChan)
          /\ Head(webrtcFrameChan).Data > bufferedFrame.Data
          /\ Head(webrtcFrameChan).StreamID = bufferedFrame.StreamID =>
               LET d == Head(webrtcFrameChan).CaptureTime - bufferedFrame.CaptureTime
               IN lastSample'.Duration = IF d > 0 THEN d ELSE 1000]_vars
  /\ [][bufferedFrame' # bufferedFrame =>
          /\ webrtcFrameChan # << >>
          /\ webrtcFrameChan' = Tail(webrtcFrameChan)
          /\ bufferedFrame' = Head(webrtcFrameChan)]_vars

\* Two frames were written on the same-epoch path, the second with 1 us
\* because its successor carries the same capture time; the third is held.
C29_Witness ==
  /\ wrote = <<1, 2>>
  /\ lastSample.path = "gap"
  /\ lastSample.Duration = 1000
  /\ bufferedFrame.Data = 3
  /\ bufferedFrame.StreamID = 1
  /\ webrtcFrameChan = << >>

\* The pacing writer takes a step.
WriterActs ==
  \/ wrote' # wrote
  \/ bufferedFrame' # bufferedFrame
  \/ shut' = "panic" /\ shut # "panic"

\* C30: when the writer takes a frame of another epoch than the held frame's,
\* it writes the held frame with duration 1 s / FPS and holds the new frame;
\* and its current epoch is the held frame's epoch.
C30_EpochChangeFlush ==
  /\ [](bufferedFrame # NoFrame => currentStreamID = bufferedFrame.StreamID)
  /\ [][(/\ WriterActs
         /\ webrtcFrameChan # << >>
         /\ bufferedFrame # NoFrame
         /\ Head(webrtcFrameChan).StreamID # bufferedFrame.StreamID) =>
          /\ FPS # 0
          /\ wrote' = Append(wrote, bufferedFrame.Data)
          /\ lastSample'.Data = bufferedFrame.Data
          /\ lastSample'.Duration = GoDiv(Second, FPS)
          /\ bufferedFrame' = Head(webrtcFrameChan)]_vars

\* ------------------------------------------------------------------- C31
\* The message that carries a framerate together with a rate-control field.
FpsQualityMsg == [quality |-> 71, framerate |-> 15]

\* One such message, and nothing else, has been handled to its end.
FpsQualityHandled ==
  /\ nMsgs = 1
  /\ \A c \in Clients : todo[c] = << >>
  /\ FPS = FpsQualityMsg["framerate"]
  /\ targetMode = "quality"
  /\ targetQuality = FpsQualityMsg["quality"]

\* C31: a config message with framerate and quality writes the framerate first
\* and the quality second, with the termination in the second write only, and
\* the encoder that runs once the message is handled was started with both the
\* new fps (capture rate and GOP length) and the new quality.
C31_FramerateThenRateControl ==
  /\ ConfigOps(FpsQualityMsg) =
       << Op("fps_raw", FALSE, 15), Op("quality", FALSE, 71) >>
  /\ ~Kills(Op("fps_raw", FALSE, 15))
  /\ Kills(Op("quality", FALSE, 71))
  /\ (FpsQualityHandled /\ ffmpegCmd # 0 /\ proc[ffmpegCmd] = "running") =>
       /\ snap.fps = FpsQualityMsg["framerate"]
       /\ snap.mode = "quality"
       /\ snap.quality = FpsQualityMsg["quality"]

\* ------------------------------------------------------------------- C36
\* The (width, height) pairs one initScreenSize or SetScreenSize call stores.
StoredPairs ==
  { <<ClampW(InitMaxWidth), ClampH(InitMaxHeight)>> }
  \cup { <<ClampW(r[1]), ClampH(r[2])>> : r \in { m \in ScreenMsgs : m[1] > 0 /\ m[2] > 0 } }

\* C36: the width and height the supervisor starts an encoder with are the
\* pair one single initScreenSize or SetScreenSize call stored, never the
\* width of one call with the height of another.
C36_SizePairFromOneCall ==
  supPc \in {"bump", "start", "wait", "post"} =>
    <<snap.width, snap.height>> \in StoredPairs

\* ------------------------------------------------------------------- C37
\* The quality values the mapping is made for ("Map 10-100").
MinQuality == 10
MaxQuality == 100
Qualities == MinQuality .. MaxQuality

\* Mutant: the division comes before the multiplication.
CrfDivFirst(quality) ==
  LET crf == 50 - GoDiv(quality - 10, 90) * 46
  IN IF crf < 4 THEN 4 ELSE IF crf > 63 THEN 63 ELSE crf

\* crf := 50 - (quality-10)*46/90, then the two clamps.
Crf(quality) ==
  LET crf == 50 - GoDiv((quality - 10) * 46, 90)
  IN IF crf < 4 THEN 4 ELSE IF crf > 63 THEN 63 ELSE crf

\* maxKbps := 2000 + (quality-10)*18000/90
MaxKbps(quality) == 2000 + GoDiv((quality - 10) * 18000, 90)

\* The numbers the supervisor formats into the child's arguments from its
\* snapshot s: -framerate, -g, -b:v, -maxrate, -bufsize (kbit), -crf, -qmin
\* (0 where the mode passes none).
EncoderArgs(s) ==
  IF s.mode = "bandwidth"
    THEN [framerate |-> s.fps, g |-> s.fps, bv |-> s.bw * 1000, maxrate |-> s.bw * 1000,
          bufsize |-> s.bw * 200, crf |-> 20, qmin |-> 0]
    ELSE [framerate |-> s.fps, g |-> s.fps, bv |-> MaxKbps(s.quality),
          maxrate |-> MaxKbps(s.quality), bufsize |-> GoDiv(MaxKbps(s.quality), 5),
          crf |-> Crf(s.quality), qmin |-> Crf(s.quality)]

\* One quality message of one session, and the encoder's restarts.
QualNext ==
  \/ (nMsgs = 0 /\ \E q \in Qualities : RecvConfig(1, [quality |-> q]))
  \/ \E c \in Clients : ApplyOp(c)
  \/ SupSnapshot \/ SupGetScreenSize \/ SupGetScreenHeight \/ SupBump \/ SupStart
  \/ SupWait \/ SupPost
  \/ DemuxHeader \/ DemuxEOF
  \/ KilledExit

QualSpec == Init /\ [][QualNext]_vars

\* C37: a child started in quality mode with a quality q of 10..100 gets the
\* quantizer 50 - (q-10)*46/90 (the quotient truncated), which lies in 4..63, is
\* 50 at q = 10 and 4 at q = 100 and never grows with q; its max-rate is
\* 2000 + (q-10)*18000/90 kbit/s and its buffer a fifth of the max-rate.
C37_QualityMapping ==
  (/\ ffmpegCmd # 0
   /\ proc[ffmpegCmd] = "running"
   /\ snap.mode = "quality"
   /\ snap.quality \in Qualities) =>
    LET q == snap.quality
        a == EncoderArgs(snap)
    IN /\ a.crf \in 4 .. 63
       /\ a.qmin = a.crf
       /\ 90 * (50 - a.crf) <= (q - 10) * 46
       /\ (q - 10) * 46 < 90 * (50 - a.crf + 1)
       /\ (q = 10 => a.crf = 50)
       /\ (q = 100 => a.crf = 4)
       /\ \A p \in Qualities : p <= q => EncoderArgs([snap EXCEPT !.quality = p]).crf >= a.crf
       /\ 90 * (a.maxrate - 2000) = (q - 10) * 18000
       /\ a.bv = a.maxrate
       /\ 5 * a.bufsize = a.maxrate

C37_Witness ==
  /\ ffmpegCmd # 0
  /\ proc[ffmpegCmd] = "running"
  /\ snap.mode = "quality"
  /\ snap.quality = 100
  /\ EncoderArgs(snap).crf = 4
  /\ EncoderArgs(snap).maxrate = 20000
  /\ EncoderArgs(snap).bufsize = 4000

\* ------------------------------------------------------------------- C39
\* C39: when a button task is executed and the task submitted right before it
\* was a pointer move that entered the queue, that move has been injected
\* before the button.
C39_MoveInjectedBeforeButton ==
  \A i \in 1 .. Len(dispatched) :
    (/\ dispatched[i].Type = "mousebtn"
     /\ [Type |-> "mousemove", id |-> dispatched[i].id - 1] \in accepted) =>
      \E j \in 1 .. (i - 1) :
        /\ dispatched[j].Type = "mousemove"
        /\ dispatched[j].id = dispatched[i].id - 1

\* ------------------------------------------------------------------- C40
\* The ids of the pointer moves that entered inputChan.
AcceptedMoves == { t.id : t \in { a \in accepted : a.Type = "mousemove" } }

\* The worker waits in "range inputChan" and the channel is empty.
InputDrained == inPc = "recv" /\ inputChan = << >>

\* C40: once the queue has drained and the worker waits for input, the last
\* pointer move injected is the last pointer move that entered the queue.
C40_FinalPositionIsLastMove ==
  (InputDrained /\ AcceptedMoves # {}) =>
    /\ MoveDispatches # << >>
    /\ \A m \in AcceptedMoves : m <= Last(MoveDispatches).id

\* ------------------------------------------------------------------- C35
\* C35: once a session's webrtc_ready has been processed, its write worker
\* takes no packet out of the session's queue to write it to the WebSocket,
\* whatever the queue holds at that moment.
C35_NoBinaryAfterReady ==
  [][\A c \in Clients : webrtcReady[c] => sendChan'[c] = sendChan[c]]_vars

\* ------------------------------------------- WebSocket writes and signaling
\* JSON values by their type, as the handler's type assertions see them.
Str(s) == <<"string", s>>
Numb == <<"number", "">>
Obj == <<"object", "">>

\* A text frame whose json.Unmarshal into map[string]interface{} succeeds,
Json(m) == [valid |-> TRUE, m |-> m]

\* and one for which it fails.
NotJSON == [valid |-> FALSE, m |-> [bytes |-> <<"", "">>]]

\* Mutant: the comma-ok form is dropped, a field of any type passes.
IsAAnyType(m, k, ty) == k \in DOMAIN m /\ Len(ty) >= 0

\* v, ok := msg[k].(T)
IsA(m, k, ty) == k \in DOMAIN m /\ m[k][1] = ty

\* msgType, _ := msg["type"].(string)
MsgType(raw) == IF IsA(raw.m, "type", "string") THEN raw.m["type"][2] ELSE ""

\* Whether the read loop reaches a call for the message: json.Unmarshal
\* succeeded, the switch has a case for the type and the case's type
\* assertions succeed.
Acts(raw) ==
  LET t == MsgType(raw)
      m == raw.m
  IN /\ raw.valid
     /\ CASE t \in {"keydown", "keyup"} -> IsA(m, "key", "string")
          [] t = "mousemove" -> IsA(m, "x", "number") /\ IsA(m, "y", "number")
          [] t \in {"mousedown", "mouseup"} -> IsA(m, "button", "number")
          [] t = "spawn" -> IsA(m, "command", "string") /\ m["command"][2] \in allowed
          [] t = "config" ->
               \/ IsA(m, "vbr", "bool") \/ IsA(m, "cpu_effort", "number")
               \/ IsA(m, "cpu_threads", "number") \/ IsA(m, "enable_desktop_mouse", "bool")
               \/ IsA(m, "bandwidth", "number") \/ IsA(m, "quality", "number")
               \/ IsA(m, "framerate", "number")
          [] t = "resize" -> IsA(m, "width", "number") /\ IsA(m, "height", "number")
          [] t = "webrtc_ready" -> TRUE
          [] t = "ping" -> IsA(m, "timestamp", "number")
          [] t = "webrtc_offer" -> IsA(m, "sdp", "object")
          [] t = "webrtc_ice" -> IsA(m, "candidate", "object")
          [] OTHER -> FALSE

\* Frames that are no JSON, have no or an unknown type, or lack a field of the
\* type their case asks for.
BadMsgs ==
  { NotJSON,
    Json([width |-> Numb, height |-> Numb]),
    Json([type |-> Numb]),
    Json([type |-> Str("foo")]),
    Json([type |-> Str("config"), bandwidth |-> Str("5")]),
    Json([type |-> Str("resize"), width |-> Numb]),
    Json([type |-> Str("mousemove"), x |-> Numb]),
    Json([type |-> Str("keydown"), key |-> Numb]),
    Json([type |-> Str("mousedown"), button |-> Str("0")]),
    Json([type |-> Str("spawn"), command |-> Numb]),
    Json([type |-> Str("ping"), timestamp |-> Str("1")]),
    Json([type |-> Str("webrtc_offer"), sdp |-> Str("v=0")]),
    Json([type |-> Str("webrtc_ice"), candidate |-> Str("a")]) }

PingMsg == Json([type |-> Str("ping"), timestamp |-> Numb])
OfferMsg == Json([type |-> Str("webrtc_offer"), sdp |-> Obj])

\* Well-formed messages of the cases that write or signal.
GoodMsgs ==
  { Json([type |-> Str("webrtc_ready")]), PingMsg, OfferMsg,
    Json([type |-> Str("webrtc_ice"), candidate |-> Obj]) }

\* Where the webrtc_offer case ends: NewPeerConnection, AddTrack,
\* SetRemoteDescription, CreateAnswer or SetLocalDescription fails, or none.
OfferSteps == {"create", "track", "remote", "answer", "local", "ok"}

\* Mutant: the flag is set on every registered client.
ReadyAfterAll(c) == [d \in Clients |-> webrtcReady[d] \/ d \in clients \/ d = c]

\* case "webrtc_ready": if c, ok := clients[conn]; ok { c.webrtcReady = true }
ReadyAfter(c) ==
  IF c \in clients THEN [webrtcReady EXCEPT ![c] = TRUE] ELSE webrtcReady

\* State that neither a WebSocket write nor a signaling case touches.
SigRest ==
  <<cfgVars, screenVars, supVars, ffmpegShouldRun, shut, todo, applied, histVars,
    snapPartial, clock, nFrames, pending, webrtcFrameChan, bufferedFrame,
    currentStreamID, lastSample, clients, sess, sendClosed, rsVars, inVars, ivfVars,
    msgVars, keyVars, badHeader, obsVars>>

\* One iteration of the read loop up to its writeJSON call, for the cases
\* "webrtc_ready", "ping", "webrtc_offer" and "webrtc_ice" and for every frame
\* that reaches no call. step is where a webrtc_offer ends.
ReadMsg(c, raw, step) ==
  /\ Up
  /\ sess[c] = "open"
  /\ todo[c] = << >>
  /\ rsPc[c] = "idle"
  /\ rdPc[c] = "read"
  /\ Acts(raw) => MsgType(raw) \in {"webrtc_ready", "ping", "webrtc_offer", "webrtc_ice"}
  /\ step # "" <=> (Acts(raw) /\ MsgType(raw) = "webrtc_offer")
  /\ step = "track" => leaked[c] < MaxLeak
  /\ lastMsg' = [client |-> c, valid |-> raw.valid, m |-> raw.m, step |-> step]
  /\ webrtcReady' = IF Acts(raw) /\ MsgType(raw) = "webrtc_ready"
                      THEN ReadyAfter(c) ELSE webrtcReady
  /\ rdPc' = IF Acts(raw) /\ (MsgType(raw) = "ping" \/ step = "ok")
               THEN [rdPc EXCEPT ![c] = "json"] ELSE rdPc
  /\ pc' = IF step = "" THEN pc
           ELSE [pc EXCEPT ![c] = IF step \in {"create", "track"} THEN "none" ELSE "open"]
  /\ leaked' = IF step = "track" THEN [leaked EXCEPT ![c] = @ + 1] ELSE leaked
  /\ UNCHANGED <<mu, wr, sendChan>>
  /\ UNCHANGED SigRest

\* writeJSON: client.mu.Lock(), and client.conn.WriteJSON(v) begins.
JsonLock(c) ==
  /\ Up
  /\ rdPc[c] = "json"
  /\ mu[c] = "free"
  /\ mu' = [mu EXCEPT ![c] = "json"]
  /\ wr' = [wr EXCEPT ![c] = @ \cup {"json"}]
  /\ rdPc' = [rdPc EXCEPT ![c] = "writing"]
  /\ UNCHANGED <<webrtcReady, sendChan, pc, leaked, lastMsg>>
  /\ UNCHANGED SigRest

\* WriteJSON returns and the deferred Unlock runs; the read loop reads on.
JsonUnlock(c) ==
  /\ Up
  /\ rdPc[c] = "writing"
  /\ mu' = [mu EXCEPT ![c] = IF @ = "json" THEN "free" ELSE @]
  /\ wr' = [wr EXCEPT ![c] = @ \ {"json"}]
  /\ rdPc' = [rdPc EXCEPT ![c] = "read"]
  /\ UNCHANGED <<webrtcReady, sendChan, pc, leaked, lastMsg>>
  /\ UNCHANGED SigRest

\* The write worker takes a packet, locks client.mu and WriteMessage begins.
WorkerLock(c) ==
  /\ Up
  /\ sendChan[c] # << >>
  /\ "worker" \notin wr[c]
  /\ mu[c] = "free"
  /\ sendChan' = [sendChan EXCEPT ![c] = Tail(@)]
  /\ mu' = [mu EXCEPT ![c] = "worker"]
  /\ wr' = [wr EXCEPT ![c] = @ \cup {"worker"}]
  /\ UNCHANGED <<webrtcReady, pc, rdPc, leaked, lastMsg>>
  /\ UNCHANGED SigRest

\* WriteMessage returns; client.mu.Unlock()
WorkerUnlock(c) ==
  /\ Up
  /\ "worker" \in wr[c]
  /\ mu' = [mu EXCEPT ![c] = IF @ = "worker" THEN "free" ELSE @]
  /\ wr' = [wr EXCEPT ![c] = @ \ {"worker"}]
  /\ UNCHANGED <<webrtcReady, sendChan, pc, rdPc, leaked, lastMsg>>
  /\ UNCHANGED SigRest

\* Mutant: the callback writes to the connection without client.mu.
IceLockNoMutex(c) ==
  /\ Up
  /\ pc[c] = "open"
  /\ "ice" \notin wr[c]
  /\ wr' = [wr EXCEPT ![c] = @ \cup {"ice"}]
  /\ UNCHANGED <<mu, webrtcReady, sendChan, pc, rdPc, leaked, lastMsg>>
  /\ UNCHANGED SigRest

\* The OnICECandidate callback of the session's peer connection, run by the
\* peer connection's goroutine: writeJSON locks client.mu and WriteJSON begins.
IceLock(c) ==
  /\ Up
  /\ pc[c] = "open"
  /\ "ice" \notin wr[c]
  /\ mu[c] = "free"
  /\ mu' = [mu EXCEPT ![c] = "ice"]
  /\ wr' = [wr EXCEPT ![c] = @ \cup {"ice"}]
  /\ UNCHANGED <<webrtcReady, sendChan, pc, rdPc, leaked, lastMsg>>
  /\ UNCHANGED SigRest

\* The callback's WriteJSON returns and the deferred Unlock runs.
IceUnlock(c) ==
  /\ Up
  /\ "ice" \in wr[c]
  /\ mu' = [mu EXCEPT ![c] = IF @ = "ice" THEN "free" ELSE @]
  /\ wr' = [wr EXCEPT ![c] = @ \ {"ice"}]
  /\ UNCHANGED <<webrtcReady, sendChan, pc, rdPc, leaked, lastMsg>>
  /\ UNCHANGED SigRest

\* The three writers of every session's connection, fed by pings, offers and
\* the frames of the first encoder child.
WriteNext ==
  \/ \E c \in Clients : ReadMsg(c, PingMsg, "")
  \/ \E c \in Clients : ReadMsg(c, OfferMsg, "ok")
  \/ \E c \in Clients : JsonLock(c)
  \/ \E c \in Clients : JsonUnlock(c)
  \/ \E c \in Clients : WorkerLock(c)
  \/ \E c \in Clients : WorkerUnlock(c)
  \/ \E c \in Clients : IceLock(c)
  \/ \E c \in Clients : IceUnlock(c)
  \/ SupSnapshot \/ SupGetScreenSize \/ SupGetScreenHeight \/ SupBump \/ SupStart
  \/ DemuxHeader \/ (nFrames < MaxSessFrames /\ DemuxFrame) \/ Broadcast

WriteSpec == Init /\ [][WriteNext]_vars

\* The read loops of the sessions with every kind of frame, and their ends.
SigNext ==
  \/ \E c \in Clients : \E raw \in BadMsgs \cup GoodMsgs : \E step \in OfferSteps \cup {""} :
       ReadMsg(c, raw, step)
  \/ \E c \in Clients : JsonLock(c)
  \/ \E c \in Clients : JsonUnlock(c)
  \/ \E c \in Clients : (rdPc[c] = "read" /\ Disconnect(c))
  \/ \E c \in Clients : DeferPcClose(c)
  \/ \E c \in Clients : DeferUnregister(c)
  \/ \E c \in Clients : DeferConnClose(c)

SigSpec == Init /\ [][SigNext]_vars

\* The peer connections session c has created and not closed.
Peers(c) == (IF pc[c] = "open" THEN 1 ELSE 0) + leaked[c]

\* ------------------------------------------------------------------- C32
\* C32: on no connection are two writes in progress at once: the write worker,
\* the read loop's writeJSON and the ICE callback write while holding client.mu,
\* so whoever is inside a write call on the connection is the holder of its mutex.
C32_OneWriterPerConnection ==
  \A c \in Clients :
    /\ Cardinality(wr[c]) <= 1
    /\ wr[c] \subseteq {mu[c]}

\* The ICE callback writes while a packet and the answer of the read loop wait.
C32_Witness ==
  \E c \in Clients :
    /\ wr[c] = {"ice"}
    /\ rdPc[c] = "json"
    /\ sendChan[c] # << >>

\* ------------------------------------------------------------------- C33
\* C33: a session has at most one un-closed peer connection at any moment,
\* wherever a webrtc_offer ends, and none once its handler has returned.
C33_AtMostOnePeer ==
  \A c \in Clients :
    /\ Peers(c) <= 1
    /\ sess[c] = "returned" => Peers(c) = 0

\* ------------------------------------------------------------------- C34
\* Everything but the record of the message handled last.
allButLastMsg ==
  <<cfgVars, screenVars, supVars, ffmpegShouldRun, shut, todo, applied, histVars,
    snapPartial, pipeVars, sessVars, rsVars, inVars, ivfVars, msgVars, keyVars,
    badHeader, obsVars, mu, wr, rdPc, leaked>>

\* The encoder's state and the state of session d.
EncoderState == <<cfgVars, screenVars, supVars, ffmpegShouldRun, shut, snapPartial, pipeVars>>

SessionState(d) ==
  <<sess[d], pc[d], leaked[d], webrtcReady[d], sendChan[d], rdPc[d], mu[d], wr[d],
    todo[d], rsPc[d], d \in clients>>

\* C34: a frame that is no JSON, has no or an unknown type, or lacks a field of
\* the type its case needs changes nothing of the server and leaves the session
\* open; and a webrtc_offer that fails at a signaling step leaves every other
\* session and the encoder as they were.
C34_BadMessageNoEffect ==
  /\ [][(/\ lastMsg' # lastMsg
         /\ [valid |-> lastMsg'.valid, m |-> lastMsg'.m] \in BadMsgs) =>
          UNCHANGED allButLastMsg]_vars
  /\ [][(/\ lastMsg' # lastMsg
         /\ lastMsg'.step \in OfferSteps \ {"ok"}) =>
          /\ UNCHANGED EncoderState
          /\ \A d \in Clients \ {lastMsg'.client} : UNCHANGED SessionState(d)]_vars

\* A frame with an ill-typed field was read on a session that stays open, while
\* the other session has a peer connection and its flag set.
C34_Witness ==
  /\ lastMsg.client = 1
  /\ [valid |-> lastMsg.valid, m |-> lastMsg.m] = Json([type |-> Str("ping"), timestamp |-> Str("1")])
  /\ sess[1] = "open"
  /\ rdPc[1] = "read"
  /\ pc[2] = "open"
  /\ webrtcReady[2]

\* ------------------------------------------------------------------- C38
\* C38: a session's webrtcReady flag is false when the session is created,
\* changes only to true and only in the step that handles a webrtc_ready
\* message of that very session, and is never reset, a later webrtc_offer
\* included; the step changes no other session's flag.
C38_ReadyFlag ==
  /\ \A c \in Clients : ~webrtcReady[c]
  /\ [][\A c \in Clients :
          /\ webrtcReady[c] => webrtcReady'[c]
          /\ webrtcReady'[c] # webrtcReady[c] =>
               /\ lastMsg'.client = c
               /\ lastMsg'.valid
               /\ lastMsg'.m = [type |-> Str("webrtc_ready")]
               /\ sess[c] = "open"]_vars

\* Session 1 has sent webrtc_ready and then an offer that replaced its peer
\* connection; session 2 has sent neither.
C38_Witness ==
  /\ webrtcReady[1]
  /\ ~webrtcReady[2]
  /\ lastMsg.client = 1
  /\ lastMsg.step = "ok"
  /\ pc[1] = "open"
  /\ sess[2] = "open"

====
